---- MODULE Spec2Model ----
(***************************************************************************)
(* DocumentRefinery: the ingestion pipeline (scan -> convert -> export ->  *)
(* finalize), the job control actions (cancel, retry), the artifact store  *)
(* with its reapers, webhook deliveries, the API keys and their scopes,    *)
(* compare, and the upload admission path.                                 *)
(*                                                                         *)
(* Granularity.  A stage adapter is a broker task that suspends while the  *)
(* scanner / engine / export I/O runs, so every adapter is two steps: its  *)
(* entry (reload the row, cancellation check, entry save, webhook) and its *)
(* finish (outcome of the external call, artifacts, the closing full-row   *)
(* save or _mark_failed).  Between the two steps the adapter holds the     *)
(* in-memory copy of the row it loaded on entry.  Under Spec the HTTP      *)
(* handlers cancel and retry run to completion in one step; under SpecRace *)
(* the retry handler is split at its read, so that two retry requests for  *)
(* one job interleave, at one instant of the clock.  SpecUpload is the      *)
(* upload handler serving two requests, split at each database access.     *)
(***************************************************************************)
EXTENDS Integers, Sequences, FiniteSets, Bags, TLC

\* ---------------------------------------------------------------- bounds
MaxTime == 2
MaxRetriesInit == 1
MaxConcurrentRetries == 2
MaxFilters == 2
MaxRequestsInFlight == 2

\* ------------------------------------------------------------- constants
NULL == -1

JobIds == {1}
Tenant == "A"

DocumentStatus == {"UPLOADED", "CLEAN", "INFECTED", "DELETED"}
IngestionJobStatus ==
    {"QUEUED", "RUNNING", "SUCCEEDED", "FAILED", "CANCELED", "QUARANTINED"}
IngestionStage == {"SCANNING", "CONVERTING", "EXPORTING", "CHUNKING", "FINALIZING"}
ArtifactKind ==
    {"docling_json", "markdown", "text", "doctags", "chunks_json", "figures_zip"}

DEFAULT_WEBHOOK_EVENTS == {"job.updated"}

\* (mutant) the chain publishes export before convert
PipelineChainSwapped ==
    <<"scan_pdf_task", "export_artifacts_task", "docling_convert_task", "finalize_job_task">>

\* chain(scan_pdf_task, docling_convert_task, export_artifacts_task, finalize_job_task)
PipelineChain ==
    <<"scan_pdf_task", "docling_convert_task", "export_artifacts_task", "finalize_job_task">>

ChainIds == 1 .. (1 + MaxRetriesInit + 1)
NoTask == <<0, 0>>
TaskId(c, pos) == <<c, pos>>

\* the values job.options_json["exports"] is drawn from ({} = key absent)
ExportOptions == { {}, {"text", "chunks_json"} }

ScanResults == {"OK", "FOUND", "ERROR", "NO_ENTRY", "NOT_DICT", "EXCEPTION"}

VARIABLES
    now,            \* timezone.now() / time.monotonic(), in ms ticks
    jobs,           \* IngestionJob table: JobIds -> row
    document,       \* the Document row the jobs target
    docFiles,       \* which of the document's file copies exist on disk
    artifacts,      \* Artifact table: a bag of rows
    artifactFiles,  \* artifact files on disk: <<job, kind>>
    chains,         \* published pipeline chains and the adapter each is in
    nextChain,      \* number of chains published so far
    revoked,        \* task ids the broker was asked to terminate
    endpoints,      \* WebhookEndpoint table: sequence of rows
    emitted,        \* the WebhookDelivery rows the last step inserted and enqueued
    deliveries,     \* WebhookDelivery table: sequence of rows, the id is the index
    webhookTasks,   \* deliver_webhook_delivery tasks the broker holds: a bag
    reaper,         \* the cleanup task in progress and what it has loaded
    apiKeys,        \* APIKey table: sequence of rows, the id is the index
    settings,       \* the Django settings the handlers read
    compare,        \* what DocumentViewSet.compare created: jobs, copies, chains
    taskRun,        \* the delivery task the last step ran, and whether it POSTed
    retryReqs,      \* retry requests between their read and their write (SpecRace)
    uploads,        \* the upload requests being handled (SpecUpload)
    documents,      \* Document table as the upload handler sees it (SpecUpload)
    quarantine,     \* quarantine files on disk, named by the request that wrote them
    last            \* what the last step exchanged with the outside: the response
                    \* to the request it handled, or the scanner's answer it read

vars == <<now, jobs, document, docFiles, artifacts, artifactFiles, chains, nextChain,
          revoked, endpoints, emitted, deliveries, webhookTasks, reaper, apiKeys, settings,
          compare, taskRun,
          retryReqs, uploads,
          documents, quarantine, last>>


\* ------------------------------------------------------------------ rows
NewJob(maxRetries, exports) ==
    [status |-> "QUEUED", stage |-> "SCANNING",
     started_at |-> NULL, finished_at |-> NULL, duration_ms |-> NULL,
     scan_ms |-> NULL, convert_ms |-> NULL, export_ms |-> NULL, chunk_ms |-> NULL,
     attempt |-> 0, max_retries |-> maxRetries,
     error_code |-> "", error_message |-> "", error_details_json |-> "null",
     docling_version |-> "", celery_task_id |-> NoTask, exports |-> exports]

NoRow == NewJob(0, {})
\* the Document row the upload creates
NewDocument == [status |-> "UPLOADED", storage_relpath_clean |-> "", expires_at |-> NULL]
NoDoc == [status |-> "DELETED", storage_relpath_clean |-> "", expires_at |-> NULL]
NoResponse == [op |-> "none", job |-> 0, code |-> 0, error |-> ""]
Response(op, j, code, error) == [op |-> op, job |-> j, code |-> code, error |-> error]

\* settings read by the handlers: the values the deployment ships
DefaultSettings == [INTERNAL_ENDPOINTS_TOKEN |-> "", DOC_DEFAULT_OPTIONS |-> <<>>]

\* no compare request was handled
NoCompare == [jobs |-> <<>>, files |-> {}, published |-> <<>>, uuids |-> 0]

\* no cleanup task is executing
IdleReaper == [task |-> "none", pc |-> "idle", todo |-> {}, cur |-> <<>>, doc |-> NoDoc]

\* results of scanner.scan(abs_path), as scan_pdf_task receives them
ScannerAnswer(j, result) == [op |-> "scan", job |-> j, code |-> 0, error |-> result]

IdleChain ==
    [job |-> 0, pos |-> 1, pc |-> "idle", local |-> NoRow, ldoc |-> NoDoc,
     start |-> 0, returned |-> <<>>]

\* (mutant) the duration is not recomputed
recompute_durationsSkipped(job) == job

\* IngestionJob.recompute_durations
recompute_durations(job) ==
    IF job.started_at # NULL /\ job.finished_at # NULL
    THEN [job EXCEPT !.duration_ms = job.finished_at - job.started_at]
    ELSE job

\* (mutant) the adapter does not look at the status it reloaded
_is_canceledIgnored(job) == FALSE

_is_canceled(job) == job.status = "CANCELED"

\* a WebhookEndpoint row as it is created
WebhookEndpoint(tenant, enabled, events) ==
    [tenant |-> tenant, enabled |-> enabled, events |-> events, secret |-> "",
     last_success_at |-> NULL, last_failure_at |-> NULL]

\* the deliveries queue_job_webhooks creates for the row it is handed
RECURSIVE DeliveriesFor(_, _, _, _, _)
DeliveriesFor(eps, j, job, prev_status, prev_stage) ==
    IF eps = <<>> THEN <<>>
    ELSE LET e == Len(eps)
             endpoint == eps[e]
             events == IF endpoint.events = {} THEN DEFAULT_WEBHOOK_EVENTS
                       ELSE endpoint.events
             rest == DeliveriesFor(SubSeq(eps, 1, e - 1), j, job, prev_status, prev_stage)
         IN IF endpoint.tenant = Tenant /\ endpoint.enabled /\ "job.updated" \in events
            THEN Append(rest, [endpoint |-> e, event_type |-> "job.updated", job |-> j,
                               status |-> job.status, stage |-> job.stage,
                               previous_status |-> prev_status,
                               previous_stage |-> prev_stage,
                               delivery |-> "PENDING"])
            ELSE rest

\* (mutant) the previous pair is not looked at
queue_job_webhooksUnconditional(j, job, prev_status, prev_stage) ==
    DeliveriesFor(endpoints, j, job, prev_status, prev_stage)

queue_job_webhooks(j, job, prev_status, prev_stage) ==
    IF prev_status = job.status /\ prev_stage = job.stage THEN <<>>
    ELSE DeliveriesFor(endpoints, j, job, prev_status, prev_stage)

\* the row _mark_failed saves
_mark_failed(job, code) ==
    recompute_durations(
        [job EXCEPT !.status = "FAILED", !.error_code = code,
                    !.error_message = "message", !.error_details_json = "{}",
                    !.finished_at = now])

\* --------------------------------------------------------- broker chain
\* the task returned its job id: the broker delivers the next task of the chain
Returned(ch) ==
    LET done == Append(ch.returned, PipelineChain[ch.pos])
    IN IF ch.pos = Len(PipelineChain)
       THEN [ch EXCEPT !.pc = "done", !.local = NoRow, !.ldoc = NoDoc, !.start = 0,
                       !.returned = done]
       ELSE [ch EXCEPT !.pc = "queued", !.pos = ch.pos + 1, !.local = NoRow,
                       !.ldoc = NoDoc, !.start = 0, !.returned = done]

\* the task raised after recording the failure: the broker does not chain the
\* next stage
Raised(ch) == [ch EXCEPT !.pc = "aborted", !.local = NoRow, !.ldoc = NoDoc, !.start = 0]

\* the task raised an exception no handler of the adapter caught
Crashed(ch) == [Raised(ch) EXCEPT !.pc = "crashed"]

\* the adapter saved its entry state and goes on to its payload
Entered(ch, job) ==
    [ch EXCEPT !.pc = "running", !.local = job, !.ldoc = document, !.start = now]

Queued(c, task) ==
    /\ chains[c].pc = "queued"
    /\ PipelineChain[chains[c].pos] = task

Running(c, task) ==
    /\ chains[c].pc = "running"
    /\ PipelineChain[chains[c].pos] = task

\* start_ingestion_pipeline: publish the chain, then record the root task id
start_ingestion_pipeline(j, c) ==
    /\ chains' = [chains EXCEPT ![c] = [IdleChain EXCEPT !.job = j, !.pc = "queued"]]
    /\ nextChain' = c

\* ------------------------------------------------------------------ Init
Init ==
    /\ now = 1
    /\ \E m \in 0 .. MaxRetriesInit, ex \in ExportOptions :
          jobs = [j \in JobIds |->
                    [NewJob(m, ex) EXCEPT !.celery_task_id = TaskId(1, 1)]]
    /\ document = NewDocument
    /\ docFiles = {"quarantine"}
    /\ artifacts = EmptyBag
    /\ artifactFiles = {}
    /\ chains = [c \in ChainIds |->
                   IF c = 1 THEN [IdleChain EXCEPT !.job = 1, !.pc = "queued"]
                   ELSE IdleChain]
    /\ nextChain = 1
    /\ revoked = {}
    /\ endpoints = <<WebhookEndpoint(Tenant, TRUE, {}),
                     WebhookEndpoint(Tenant, FALSE, {"job.updated"})>>
    /\ emitted = <<>>
    /\ deliveries = <<>>
    /\ webhookTasks = EmptyBag
    /\ reaper = IdleReaper
    /\ apiKeys = <<>>
    /\ settings = DefaultSettings
    /\ compare = NoCompare
    /\ taskRun = <<>>
    /\ retryReqs = EmptyBag
    /\ uploads = <<>>
    /\ documents = {}
    /\ quarantine = {}
    /\ last = NoResponse

Tick ==
    /\ now < MaxTime
    /\ now' = now + 1
    /\ last' = NoResponse
    /\ emitted' = <<>>
    /\ taskRun' = <<>>
    /\ UNCHANGED <<jobs, document, docFiles, artifacts, artifactFiles, chains, nextChain,
                   revoked, endpoints, deliveries, webhookTasks, reaper, apiKeys, settings,
                   compare, retryReqs, uploads,
                   documents, quarantine>>

\* ------------------------------------------------------------- scan stage
\* scan_pdf_task, entry: reload, cancellation check, entry save, webhook
ScanEnter(c) ==
    /\ Queued(c, "scan_pdf_task")
    /\ LET j == chains[c].job
           job == jobs[j]
           entered == [job EXCEPT !.stage = "SCANNING",
                                  !.started_at = IF job.started_at = NULL THEN now
                                                 ELSE job.started_at,
                                  !.status = "RUNNING",
                                  !.celery_task_id = TaskId(c, chains[c].pos)]
       IN IF _is_canceled(job)
          THEN /\ chains' = [chains EXCEPT ![c] = Returned(chains[c])]
               /\ emitted' = <<>> /\ UNCHANGED jobs
          ELSE /\ jobs' = [jobs EXCEPT ![j] = entered]
               /\ emitted' = queue_job_webhooks(j, entered, job.status, job.stage)
               /\ chains' = [chains EXCEPT ![c] = Entered(chains[c], entered)]
    /\ last' = NoResponse
    /\ taskRun' = <<>>
    /\ UNCHANGED <<now, document, docFiles, artifacts, artifactFiles, nextChain, revoked,
                   endpoints, deliveries, webhookTasks, reaper, apiKeys, settings, compare,
                   retryReqs, uploads, documents,
                   quarantine>>

\* scan_pdf_task, after scanner.scan returned or raised
ScanFinish(c, result) ==
    /\ Running(c, "scan_pdf_task")
    /\ LET ch == chains[c]
           j == ch.job
           job == ch.local
           failed(code) ==
               /\ jobs' = [jobs EXCEPT ![j] = _mark_failed(job, code)]
               /\ emitted' =
                      queue_job_webhooks(j, _mark_failed(job, code), job.status, job.stage)
               /\ chains' = [chains EXCEPT ![c] = Raised(ch)]
               /\ UNCHANGED <<document, docFiles>>
           quarantined ==
               recompute_durations(
                   [job EXCEPT !.status = "QUARANTINED", !.error_code = "VIRUS_FOUND",
                               !.error_message = "message", !.finished_at = now])
           scanned == [job EXCEPT !.scan_ms = now - ch.start]
       IN CASE result = "EXCEPTION" -> failed("CLAMAV_UNAVAILABLE")
            [] result = "NOT_DICT" -> failed("CLAMAV_INVALID_RESPONSE")
            [] result \in {"ERROR", "NO_ENTRY"} -> failed("VIRUS_SCAN_ERROR")
            [] result = "FOUND" ->
                 /\ document' = [ch.ldoc EXCEPT !.status = "INFECTED"]
                 /\ jobs' = [jobs EXCEPT ![j] = quarantined]
                 /\ emitted' =
                        queue_job_webhooks(j, quarantined, job.status, job.stage)
                 /\ chains' = [chains EXCEPT ![c] = Raised(ch)]
                 /\ UNCHANGED docFiles
            [] result = "OK" ->
                 IF "quarantine" \in docFiles
                 THEN /\ docFiles' = (docFiles \ {"quarantine"}) \cup {"clean"}
                      /\ document' = [ch.ldoc EXCEPT !.status = "CLEAN",
                                                     !.storage_relpath_clean = "clean"]
                      /\ jobs' = [jobs EXCEPT ![j] = scanned]
                      /\ chains' = [chains EXCEPT ![c] = Returned(ch)]
                      /\ emitted' = <<>>
                 ELSE \* os.replace raises FileNotFoundError: nothing is recorded
                      /\ chains' = [chains EXCEPT ![c] = Crashed(ch)]
                      /\ emitted' = <<>> /\ UNCHANGED <<jobs, document, docFiles>>
    /\ last' = ScannerAnswer(chains[c].job, result)
    /\ taskRun' = <<>>
    /\ UNCHANGED <<now, artifacts, artifactFiles, nextChain, revoked, endpoints, deliveries,
                   webhookTasks, reaper, apiKeys, settings, compare, retryReqs, uploads,
                   documents, quarantine>>

\* ---------------------------------------------------------- artifact store
ArtifactRow(j, kind) == [tenant |-> Tenant, job |-> j, kind |-> kind, expires_at |-> NULL]

\* (mutant) the table has no unique constraint
UniqueViolationNever(arts, j, kind) == FALSE

\* the unique constraint uniq_artifact_kind_per_job rejects the insert
UniqueViolation(arts, j, kind) ==
    \E a \in BagToSet(arts) : a.tenant = Tenant /\ a.job = j /\ a.kind = kind

\* _write_artifact: the file is written and renamed into place, then the row is
\* inserted; a rejected insert raises with the file already in place
RECURSIVE WriteArtifacts(_, _, _, _)
WriteArtifacts(kinds, arts, files, j) ==
    IF kinds = <<>> THEN [artifacts |-> arts, files |-> files, raised |-> FALSE]
    ELSE LET kind == Head(kinds)
             written == files \cup {<<j, kind>>}
         IN IF UniqueViolation(arts, j, kind)
            THEN [artifacts |-> arts, files |-> written, raised |-> TRUE]
            ELSE WriteArtifacts(Tail(kinds), arts (+) SetToBag({ArtifactRow(j, kind)}),
                                written, j)

\* the kinds export_artifacts_task renders, in the order it writes them
ExportKinds(job) ==
    LET exports == IF job.exports = {} THEN {"markdown", "text", "doctags"}
                   ELSE job.exports
    IN SelectSeq(<<"markdown", "text", "doctags">>, LAMBDA k : k \in exports)

\* ---------------------------------------------------------- convert stage
ConvertEnter(c) ==
    /\ Queued(c, "docling_convert_task")
    /\ LET j == chains[c].job
           job == jobs[j]
           entered == [job EXCEPT !.stage = "CONVERTING", !.status = "RUNNING",
                                  !.celery_task_id = TaskId(c, chains[c].pos)]
       IN IF _is_canceled(job)
          THEN /\ chains' = [chains EXCEPT ![c] = Returned(chains[c])]
               /\ emitted' = <<>> /\ UNCHANGED jobs
          ELSE /\ jobs' = [jobs EXCEPT ![j] = entered]
               /\ emitted' = queue_job_webhooks(j, entered, job.status, job.stage)
               /\ chains' = [chains EXCEPT ![c] = Entered(chains[c], entered)]
    /\ last' = NoResponse
    /\ taskRun' = <<>>
    /\ UNCHANGED <<now, document, docFiles, artifacts, artifactFiles, nextChain, revoked,
                   endpoints, deliveries, webhookTasks, reaper, apiKeys, settings, compare,
                   retryReqs, uploads, documents,
                   quarantine>>

\* docling_convert_task, after converter.convert returned (engineOk) or raised
ConvertFinish(c, engineOk) ==
    /\ Running(c, "docling_convert_task")
    /\ engineOk => (chains[c].ldoc.storage_relpath_clean # "" /\ "clean" \in docFiles)
    /\ LET ch == chains[c]
           j == ch.job
           job == ch.local
           w == WriteArtifacts(<<"docling_json">>, artifacts, artifactFiles, j)
           converted == [job EXCEPT !.docling_version = "v", !.convert_ms = now - ch.start]
       IN IF ~engineOk
          THEN /\ jobs' = [jobs EXCEPT ![j] = _mark_failed(job, "DOCLING_CONVERT_FAILED")]
               /\ emitted' =
                      queue_job_webhooks(j, _mark_failed(job, "DOCLING_CONVERT_FAILED"),
                                         job.status, job.stage)
               /\ chains' = [chains EXCEPT ![c] = Raised(ch)]
               /\ UNCHANGED <<artifacts, artifactFiles>>
          ELSE /\ artifacts' = w.artifacts
               /\ artifactFiles' = w.files
               /\ emitted' = <<>>
               /\ IF w.raised
                  THEN /\ chains' = [chains EXCEPT ![c] = Crashed(ch)]
                       /\ UNCHANGED jobs
                  ELSE /\ jobs' = [jobs EXCEPT ![j] = converted]
                       /\ chains' = [chains EXCEPT ![c] = Returned(ch)]
    /\ last' = NoResponse
    /\ taskRun' = <<>>
    /\ UNCHANGED <<now, document, docFiles, nextChain, revoked, endpoints, deliveries,
                   webhookTasks, reaper, apiKeys, settings, compare, retryReqs, uploads,
                   documents, quarantine>>

\* ----------------------------------------------------------- export stage
ExportEnter(c) ==
    /\ Queued(c, "export_artifacts_task")
    /\ LET j == chains[c].job
           job == jobs[j]
           entered == [job EXCEPT !.stage = "EXPORTING", !.status = "RUNNING",
                                  !.celery_task_id = TaskId(c, chains[c].pos)]
       IN IF _is_canceled(job)
          THEN /\ chains' = [chains EXCEPT ![c] = Returned(chains[c])]
               /\ emitted' = <<>> /\ UNCHANGED jobs
          ELSE /\ jobs' = [jobs EXCEPT ![j] = entered]
               /\ emitted' = queue_job_webhooks(j, entered, job.status, job.stage)
               /\ chains' = [chains EXCEPT ![c] = Entered(chains[c], entered)]
    /\ last' = NoResponse
    /\ taskRun' = <<>>
    /\ UNCHANGED <<now, document, docFiles, artifacts, artifactFiles, nextChain, revoked,
                   endpoints, deliveries, webhookTasks, reaper, apiKeys, settings, compare,
                   retryReqs, uploads, documents,
                   quarantine>>

\* export_artifacts_task, after the canonical artifact was read (loadOk) or not
ExportFinish(c, loadOk) ==
    /\ Running(c, "export_artifacts_task")
    /\ loadOk => <<chains[c].job, "docling_json">> \in artifactFiles
    /\ LET ch == chains[c]
           j == ch.job
           job == ch.local
           w == WriteArtifacts(ExportKinds(job), artifacts, artifactFiles, j)
           exported == [job EXCEPT !.export_ms = now - ch.start]
       IN IF ~loadOk
          THEN /\ jobs' = [jobs EXCEPT ![j] = _mark_failed(job, "DOCLING_LOAD_FAILED")]
               /\ emitted' =
                      queue_job_webhooks(j, _mark_failed(job, "DOCLING_LOAD_FAILED"),
                                         job.status, job.stage)
               /\ chains' = [chains EXCEPT ![c] = Raised(ch)]
               /\ UNCHANGED <<artifacts, artifactFiles>>
          ELSE /\ artifacts' = w.artifacts
               /\ artifactFiles' = w.files
               /\ emitted' = <<>>
               /\ IF w.raised
                  THEN /\ chains' = [chains EXCEPT ![c] = Crashed(ch)]
                       /\ UNCHANGED jobs
                  ELSE /\ jobs' = [jobs EXCEPT ![j] = exported]
                       /\ chains' = [chains EXCEPT ![c] = Returned(ch)]
    /\ last' = NoResponse
    /\ taskRun' = <<>>
    /\ UNCHANGED <<now, document, docFiles, nextChain, revoked, endpoints, deliveries,
                   webhookTasks, reaper, apiKeys, settings, compare, retryReqs, uploads,
                   documents, quarantine>>

\* --------------------------------------------------------- finalize stage
\* finalize_job_task has no suspension point: one step
Finalize(c) ==
    /\ Queued(c, "finalize_job_task")
    /\ LET j == chains[c].job
           job == jobs[j]
           finalized == recompute_durations(
                            [job EXCEPT !.stage = "FINALIZING", !.status = "SUCCEEDED",
                                        !.finished_at = now,
                                        !.celery_task_id = TaskId(c, chains[c].pos)])
       IN IF _is_canceled(job)
          THEN emitted' = <<>> /\ UNCHANGED jobs
          ELSE /\ jobs' = [jobs EXCEPT ![j] = finalized]
               /\ emitted' =
                      queue_job_webhooks(j, finalized, job.status, job.stage)
    /\ chains' = [chains EXCEPT ![c] = Returned(chains[c])]
    /\ last' = NoResponse
    /\ taskRun' = <<>>
    /\ UNCHANGED <<now, document, docFiles, artifacts, artifactFiles, nextChain, revoked,
                   endpoints, deliveries, webhookTasks, reaper, apiKeys, settings, compare,
                   retryReqs, uploads, documents,
                   quarantine>>

\* ------------------------------------------------------ broker revocation
\* revoke(task_id, terminate=True) reaches the worker while the task executes:
\* the task is killed where it stands and the chain ends
Terminate(c) ==
    /\ chains[c].pc = "running"
    /\ TaskId(c, chains[c].pos) \in revoked
    /\ chains' = [chains EXCEPT ![c] = [Raised(chains[c]) EXCEPT !.pc = "revoked"]]
    /\ last' = NoResponse
    /\ emitted' = <<>>
    /\ taskRun' = <<>>
    /\ UNCHANGED <<now, jobs, document, docFiles, artifacts, artifactFiles, nextChain,
                   revoked, endpoints, deliveries, webhookTasks, reaper, apiKeys, settings,
                   compare, retryReqs, uploads,
                   documents, quarantine>>

\* a revoked task that has not started is discarded by the worker that receives it
Discard(c) ==
    /\ chains[c].pc = "queued"
    /\ TaskId(c, chains[c].pos) \in revoked
    /\ chains' = [chains EXCEPT ![c] = [Raised(chains[c]) EXCEPT !.pc = "revoked"]]
    /\ last' = NoResponse
    /\ emitted' = <<>>
    /\ taskRun' = <<>>
    /\ UNCHANGED <<now, jobs, document, docFiles, artifacts, artifactFiles, nextChain,
                   revoked, endpoints, deliveries, webhookTasks, reaper, apiKeys, settings,
                   compare, retryReqs, uploads,
                   documents, quarantine>>

\* -------------------------------------------------------------- job control
\* the row JobViewSet.cancel saves
Canceled(job) ==
    recompute_durations([job EXCEPT !.status = "CANCELED", !.finished_at = now])

\* (mutant) a FAILED job is cancelable too
NotCancelableLax(job) == job.status \notin {"QUEUED", "RUNNING", "FAILED"}

\* the status check of JobViewSet.cancel
NotCancelable(job) == job.status \notin {"QUEUED", "RUNNING"}

\* JobViewSet.cancel; revokeOk = FALSE: control.revoke raised and was swallowed
CancelRequest(j, revokeOk) ==
    LET job == jobs[j]
    IN /\ IF NotCancelable(job)
          THEN /\ last' = Response("cancel", j, 400, "NOT_CANCELABLE")
               /\ emitted' = <<>> /\ UNCHANGED <<jobs, revoked>>
          ELSE /\ jobs' = [jobs EXCEPT ![j] = Canceled(job)]
               /\ emitted' =
                      queue_job_webhooks(j, Canceled(job), job.status, job.stage)
               /\ revoked' = IF job.celery_task_id # NoTask /\ revokeOk
                             THEN revoked \cup {job.celery_task_id}
                             ELSE revoked
               /\ last' = Response("cancel", j, 200, "")
       /\ taskRun' = <<>>
       /\ UNCHANGED <<now, document, docFiles, artifacts, artifactFiles, chains, nextChain,
                      endpoints, deliveries, webhookTasks, reaper, settings,
                      compare, retryReqs, uploads,
                      documents,
                      quarantine>>

\* JobViewSet.cancel for a request that leaves the key row as it is
Cancel(j, revokeOk) ==
    /\ CancelRequest(j, revokeOk)
    /\ UNCHANGED apiKeys

\* the row JobViewSet.retry saves
RetryReset(job) ==
    [job EXCEPT !.attempt = job.attempt + 1, !.status = "QUEUED", !.stage = "SCANNING",
                !.error_code = "", !.error_message = "", !.error_details_json = "null",
                !.started_at = NULL, !.finished_at = NULL, !.duration_ms = NULL,
                !.scan_ms = NULL, !.convert_ms = NULL, !.export_ms = NULL,
                !.chunk_ms = NULL]

\* (mutant) the artifact rows are kept
ArtifactsAfterRetryKept(arts, j) == arts

\* Artifact.objects.filter(job=job) after the files were removed and .delete() ran
ArtifactsAfterRetry(arts, j) ==
    [a \in {x \in BagToSet(arts) : x.job # j} |-> arts[a]]

\* (mutant) the limit check is off by one
RetryRejectionOffByOne(job) ==
    IF job.status \notin {"FAILED", "QUARANTINED"} THEN "NOT_RETRYABLE"
    ELSE IF job.attempt > job.max_retries THEN "RETRY_LIMIT"
    ELSE ""

\* the checks of JobViewSet.retry: "" when the retry is accepted
RetryRejection(job) ==
    IF job.status \notin {"FAILED", "QUARANTINED"} THEN "NOT_RETRYABLE"
    ELSE IF job.attempt >= job.max_retries THEN "RETRY_LIMIT"
    ELSE ""

\* JobViewSet.retry from the artifact cleanup on, for the row the handler loaded
RetryAccepted(j, job) ==
    /\ nextChain + 1 \in ChainIds
    /\ artifactFiles' = artifactFiles \
                          {<<a.job, a.kind>> : a \in {x \in BagToSet(artifacts) : x.job = j}}
    /\ artifacts' = ArtifactsAfterRetry(artifacts, j)
    /\ jobs' = [jobs EXCEPT ![j] =
                  [RetryReset(job) EXCEPT !.celery_task_id = TaskId(nextChain + 1, 1)]]
    /\ emitted' = queue_job_webhooks(j, RetryReset(job), job.status, job.stage)
    /\ start_ingestion_pipeline(j, nextChain + 1)
    /\ last' = Response("retry", j, 200, "")

\* JobViewSet.retry, handled in one step
RetryRequest(j) ==
    LET job == jobs[j]
    IN /\ IF RetryRejection(job) # ""
          THEN /\ last' = Response("retry", j, 400, RetryRejection(job))
               /\ emitted' = <<>> /\ UNCHANGED <<jobs, artifacts, artifactFiles, chains, nextChain>>
          ELSE RetryAccepted(j, job)
       /\ taskRun' = <<>>
       /\ UNCHANGED <<now, document, docFiles, revoked, endpoints, deliveries,
                      webhookTasks, reaper, settings, compare,
                      retryReqs, uploads, documents, quarantine>>

\* JobViewSet.retry for a request that leaves the key row as it is
Retry(j) ==
    /\ RetryRequest(j)
    /\ UNCHANGED apiKeys

\* ------------------------------------------------------------------ reaper
\* the artifacts whose expiry the operator edits
ExpirableKinds == {"docling_json"}

\* ArtifactAdmin: an operator sets an artifact's expires_at to the present instant
AdminSetArtifactExpiry(a) ==
    /\ a \in BagToSet(artifacts)
    /\ a.kind \in ExpirableKinds
    /\ a.expires_at = NULL
    /\ artifacts' = (artifacts (-) SetToBag({a})) (+) SetToBag({[a EXCEPT !.expires_at = now]})
    /\ last' = NoResponse
    /\ emitted' = <<>>
    /\ taskRun' = <<>>
    /\ UNCHANGED <<now, jobs, document, docFiles, artifactFiles, chains, nextChain, revoked,
                   endpoints, deliveries, webhookTasks, reaper, apiKeys, settings, compare,
                   retryReqs, uploads, documents,
                   quarantine>>

Expired(a) == a.expires_at # NULL /\ a.expires_at < now

\* cleanup_expired_artifacts
cleanup_expired_artifacts ==
    /\ \E a \in BagToSet(artifacts) : Expired(a)
    /\ artifactFiles' = artifactFiles \
                          {<<a.job, a.kind>> : a \in {x \in BagToSet(artifacts) : Expired(x)}}
    /\ artifacts' = [a \in {x \in BagToSet(artifacts) : ~Expired(x)} |-> artifacts[a]]
    /\ last' = NoResponse
    /\ emitted' = <<>>
    /\ taskRun' = <<>>
    /\ UNCHANGED <<now, jobs, document, docFiles, chains, nextChain, revoked, endpoints,
                   deliveries, webhookTasks, reaper, apiKeys, settings, compare, retryReqs,
                   uploads, documents, quarantine>>

Next ==
    \/ Tick
    \/ \E c \in ChainIds : ScanEnter(c)
    \/ \E c \in ChainIds, r \in ScanResults : ScanFinish(c, r)
    \/ \E c \in ChainIds : ConvertEnter(c)
    \/ \E c \in ChainIds, ok \in BOOLEAN : ConvertFinish(c, ok)
    \/ \E c \in ChainIds : ExportEnter(c)
    \/ \E c \in ChainIds, ok \in BOOLEAN : ExportFinish(c, ok)
    \/ \E c \in ChainIds : Finalize(c)
    \/ \E c \in ChainIds : Terminate(c)
    \/ \E c \in ChainIds : Discard(c)
    \/ \E j \in JobIds, ok \in BOOLEAN : Cancel(j, ok)
    \/ \E j \in JobIds : Retry(j)
    \/ \E a \in BagToSet(artifacts) : AdminSetArtifactExpiry(a)
    \/ cleanup_expired_artifacts

Spec == Init /\ [][Next]_vars

\* ------------------------------------------------------- racing retry requests
\* JobViewSet.retry up to its checks: self.get_object() loads the row and both
\* checks pass on the loaded copy; other requests and tasks run before the handler
\* goes on
RetryLoad(j) ==
    /\ BagCardinality(retryReqs) < MaxConcurrentRetries
    /\ RetryRejection(jobs[j]) = ""
    /\ retryReqs' = retryReqs (+) SetToBag({[job |-> j, row |-> jobs[j]]})
    /\ last' = NoResponse
    /\ emitted' = <<>>
    /\ taskRun' = <<>>
    /\ UNCHANGED <<now, jobs, document, docFiles, artifacts, artifactFiles, chains,
                   nextChain, revoked, endpoints, deliveries, webhookTasks, reaper,
                   apiKeys, settings, compare, uploads,
                   documents, quarantine>>

\* JobViewSet.retry from the artifact cleanup on, with the copy loaded earlier
RetryCommit(r) ==
    /\ r \in BagToSet(retryReqs)
    /\ RetryAccepted(r.job, r.row)
    /\ retryReqs' = retryReqs (-) SetToBag({r})
    /\ taskRun' = <<>>
    /\ UNCHANGED <<now, document, docFiles, revoked, endpoints, deliveries, webhookTasks,
                   reaper, apiKeys, settings, compare,
                   uploads, documents, quarantine>>

\* ArtifactAdmin: an operator enters an expires_at that has already passed
AdminBackdateArtifactExpiry(a) ==
    /\ a \in BagToSet(artifacts)
    /\ a.kind \in ExpirableKinds
    /\ a.expires_at = NULL
    /\ artifacts' = (artifacts (-) SetToBag({a}))
                       (+) SetToBag({[a EXCEPT !.expires_at = now - 1]})
    /\ last' = NoResponse
    /\ emitted' = <<>>
    /\ taskRun' = <<>>
    /\ UNCHANGED <<now, jobs, document, docFiles, artifactFiles, chains, nextChain, revoked,
                   endpoints, deliveries, webhookTasks, reaper, apiKeys, settings, compare,
                   retryReqs, uploads, documents,
                   quarantine>>

\* the job of the racing requests: the default export set, one retry allowed
InitRace ==
    /\ Init
    /\ \A j \in JobIds : jobs[j].max_retries = 1 /\ jobs[j].exports = {}

\* scanner outcomes told apart by what the racing chains do next
RaceScanResults == {"OK", "ERROR"}

NextRace ==
    \/ \E c \in ChainIds : ScanEnter(c)
    \/ \E c \in ChainIds, r \in RaceScanResults : ScanFinish(c, r)
    \/ \E c \in ChainIds : ConvertEnter(c)
    \/ \E c \in ChainIds, ok \in BOOLEAN : ConvertFinish(c, ok)
    \/ \E c \in ChainIds : ExportEnter(c)
    \/ \E c \in ChainIds, ok \in BOOLEAN : ExportFinish(c, ok)
    \/ \E c \in ChainIds : Finalize(c)
    \/ \E j \in JobIds : Cancel(j, FALSE)
    \/ \E j \in JobIds : RetryLoad(j)
    \/ \E r \in BagToSet(retryReqs) : RetryCommit(r)
    \/ \E a \in BagToSet(artifacts) : AdminBackdateArtifactExpiry(a)
    \/ cleanup_expired_artifacts

SpecRace == InitRace /\ [][NextRace]_vars

\* ------------------------------------------------------------------ upload
\* DocumentViewSet.create for two requests handled by two workers.  A request is
\* one step up to the end of the streaming loop (no database access until then),
\* and one step for each database access after it.
Requests == {1, 2}
Tenants == {"A", "B"}
Bytes == {"a", "b"}

\* settings.UPLOAD_MAX_SIZE_MB * 1024 * 1024, in units of one streamed chunk
max_bytes == 1

Bodies == UNION {[1 .. n -> Bytes] : n \in 1 .. (max_bytes + 1)}

\* ingest: "no" = ingest absent or false, otherwise the validity of the options
IngestChoices == {"no", "valid", "invalid"}

\* hasher.hexdigest(): the body read as a numeral, one digit per chunk
RECURSIVE hexdigest(_)
hexdigest(body) ==
    IF body = <<>> THEN 1
    ELSE 3 * hexdigest(SubSeq(body, 1, Len(body) - 1))
           + (IF body[Len(body)] = "a" THEN 1 ELSE 2)

NewUpload(tenant, body, advertised, ingest) ==
    [tenant |-> tenant, body |-> body, size |-> advertised, ingest |-> ingest,
     pc |-> "request", sha256 |-> 0, size_bytes |-> 0, code |-> 0, error_code |-> ""]

Responded(u, code, error_code) ==
    [u EXCEPT !.pc = "done", !.code = code, !.error_code = error_code]

\* Document.objects.filter(tenant=..., sha256=...).exists()
DocumentExists(tenant, sha256) ==
    \E d \in documents : d.tenant = tenant /\ d.sha256 = sha256

InitUpload ==
    /\ now = 1
    /\ jobs = [j \in JobIds |-> NoRow]
    /\ document = NoDoc
    /\ docFiles = {}
    /\ artifacts = EmptyBag
    /\ artifactFiles = {}
    /\ chains = [c \in ChainIds |-> IdleChain]
    /\ nextChain = 0
    /\ revoked = {}
    /\ endpoints = <<>>
    /\ emitted = <<>>
    /\ deliveries = <<>>
    /\ webhookTasks = EmptyBag
    /\ reaper = IdleReaper
    /\ apiKeys = <<>>
    /\ settings = DefaultSettings
    /\ compare = NoCompare
    /\ taskRun = <<>>
    /\ retryReqs = EmptyBag
    /\ uploads \in [Requests ->
                      {NewUpload(t, b, a, i) :
                          <<t, b, a, i>> \in Tenants \X Bodies \X (0 .. (max_bytes + 1))
                                               \X IngestChoices}]
    /\ documents = {}
    /\ quarantine = {}
    /\ last = NoResponse

uploadFrame ==
    <<now, jobs, document, docFiles, artifacts, artifactFiles, chains, nextChain, revoked,
      endpoints, deliveries, webhookTasks, reaper, apiKeys, settings, compare, taskRun,
      emitted, retryReqs, last>>

\* (mutant) the file is left where it is
os_removeSkipped(files, r) == files

\* if os.path.exists(abs_path): os.remove(abs_path)
os_remove(files, r) == files \ {r}

\* (mutant) a size equal to the limit counts as too large
FileTooLargeInclusive(size_bytes) == size_bytes >= max_bytes

\* size > max_bytes, for the advertised size and for the running counter
FileTooLarge(size_bytes) == size_bytes > max_bytes

\* the streaming loop: size_bytes += len(chunk), ValueError once it passes the limit
RECURSIVE StreamChunks(_, _)
StreamChunks(chunks, size_bytes) ==
    IF chunks = <<>> THEN [raised |-> FALSE, size_bytes |-> size_bytes]
    ELSE IF FileTooLarge(size_bytes + 1)
         THEN [raised |-> TRUE, size_bytes |-> size_bytes + 1]
         ELSE StreamChunks(Tail(chunks), size_bytes + 1)

\* create, lines 64-124: the advertised-size check, then the streaming loop that
\* hashes and writes the chunks while it counts them
UploadReceive(r) ==
    LET u == uploads[r]
        streamed == StreamChunks(u.body, 0)
    IN /\ u.pc = "request"
       /\ IF u.size # 0 /\ FileTooLarge(u.size)
          THEN /\ uploads' = [uploads EXCEPT ![r] = Responded(u, 413, "FILE_TOO_LARGE")]
               /\ UNCHANGED quarantine
          ELSE IF streamed.raised
          THEN \* ValueError in the loop: the partial file is removed
               /\ uploads' = [uploads EXCEPT ![r] = Responded(u, 413, "FILE_TOO_LARGE")]
               /\ quarantine' = os_remove(quarantine \cup {r}, r)
          ELSE /\ uploads' = [uploads EXCEPT ![r] =
                                 [u EXCEPT !.pc = "exists", !.sha256 = hexdigest(u.body),
                                           !.size_bytes = streamed.size_bytes]]
               /\ quarantine' = quarantine \cup {r}
       /\ UNCHANGED documents
       /\ UNCHANGED uploadFrame

\* create, lines 125-131: the duplicate check
UploadExists(r) ==
    LET u == uploads[r]
    IN /\ u.pc = "exists"
       /\ IF DocumentExists(u.tenant, u.sha256)
          THEN /\ quarantine' = os_remove(quarantine, r)
               /\ uploads' = [uploads EXCEPT ![r] = Responded(u, 409, "DUPLICATE_DOCUMENT")]
          ELSE /\ uploads' = [uploads EXCEPT ![r].pc = "full_clean"]
               /\ UNCHANGED quarantine
       /\ UNCHANGED documents
       /\ UNCHANGED uploadFrame

\* doc.save(), first half: BaseModel.save runs full_clean(), whose uniqueness
\* validation queries the table and raises ValidationError; create catches only
\* IntegrityError, so the exception leaves the view and the response is a 500
UploadFullClean(r) ==
    LET u == uploads[r]
    IN /\ u.pc = "full_clean"
       /\ uploads' = [uploads EXCEPT ![r] =
                         IF DocumentExists(u.tenant, u.sha256)
                         THEN Responded(u, 500, "")
                         ELSE [u EXCEPT !.pc = "insert"]]
       /\ UNCHANGED <<documents, quarantine>>
       /\ UNCHANGED uploadFrame

\* doc.save(), second half: the INSERT under uniq_document_sha256_per_tenant
UploadInsert(r) ==
    LET u == uploads[r]
    IN /\ u.pc = "insert"
       /\ IF DocumentExists(u.tenant, u.sha256)
          THEN /\ quarantine' = os_remove(quarantine, r)
               /\ uploads' = [uploads EXCEPT ![r] = Responded(u, 409, "DUPLICATE_DOCUMENT")]
               /\ UNCHANGED documents
          ELSE /\ documents' = documents \cup
                                 {[tenant |-> u.tenant, sha256 |-> u.sha256,
                                   size_bytes |-> u.size_bytes, by |-> r,
                                   status |-> "UPLOADED", jobs |-> 0]}
               /\ uploads' = [uploads EXCEPT ![r].pc = "ingest"]
               /\ UNCHANGED quarantine
       /\ UNCHANGED uploadFrame

\* create, lines 142-181: enrolment and the 201
UploadIngest(r) ==
    LET u == uploads[r]
        doc == CHOOSE d \in documents : d.by = r
    IN /\ u.pc = "ingest"
       /\ CASE u.ingest = "no" ->
                 /\ uploads' = [uploads EXCEPT ![r] = Responded(u, 201, "")]
                 /\ UNCHANGED <<documents, quarantine>>
            [] u.ingest = "invalid" ->
                 /\ quarantine' = os_remove(quarantine, r)
                 /\ documents' = documents \ {doc}
                 /\ uploads' = [uploads EXCEPT ![r] = Responded(u, 400, "INVALID_OPTIONS")]
            [] u.ingest = "valid" ->
                 /\ documents' = (documents \ {doc}) \cup {[doc EXCEPT !.jobs = 1]}
                 /\ uploads' = [uploads EXCEPT ![r] = Responded(u, 201, "")]
                 /\ UNCHANGED quarantine
       /\ UNCHANGED uploadFrame

NextUpload ==
    \/ \E r \in Requests : UploadReceive(r)
    \/ \E r \in Requests : UploadExists(r)
    \/ \E r \in Requests : UploadFullClean(r)
    \/ \E r \in Requests : UploadInsert(r)
    \/ \E r \in Requests : UploadIngest(r)

SpecUpload == InitUpload /\ [][NextUpload]_vars

\* ==================================================================== SpecWebhook
\* The webhook engine on its own: queue_job_webhooks applied to previous states
\* and endpoint tables drawn from small sets, and the deliveries of one
\* notification followed through every answer their endpoints can give.

\* settings.WEBHOOK_MAX_ATTEMPTS
WEBHOOK_MAX_ATTEMPTS == 3

_webhook_max_attempts == WEBHOOK_MAX_ATTEMPTS

\* settings.WEBHOOK_INITIAL_BACKOFF_SECONDS is not set: the default
_webhook_initial_backoff_seconds == 30

EndpointIds == {1, 2}
EndpointEvents == { {}, {"job.updated"}, {"job.failed"} }

\* what urlopen gives back: a status code, or NULL when it raised without one
WebhookResponses == {299, 300, NULL}

\* the (status, stage) pairs the notified job may come from: its own, one that
\* differs in the status, one that differs in the stage
PreviousPairs ==
    {<<"QUEUED", "SCANNING">>, <<"RUNNING", "SCANNING">>, <<"QUEUED", "CONVERTING">>}

\* the row WebhookDelivery.objects.create inserts
WebhookDelivery(row) ==
    [endpoint |-> row.endpoint, event_type |-> row.event_type,
     payload_json |-> [job |-> row.job, status |-> row.status, stage |-> row.stage,
                       previous_status |-> row.previous_status,
                       previous_stage |-> row.previous_stage],
     status |-> row.delivery, response_code |-> NULL, attempt |-> 0,
     next_retry_at |-> NULL, last_error |-> "", delivered_at |-> NULL]

\* a run of the delivery task for the delivery id; posted tells whether it made
\* the POST request
TaskRun(id, posted) == [delivery |-> id, posted |-> posted]

\* a deliver_webhook_delivery task published with a countdown
DeliveryTask(id, countdown) == [delivery |-> id, eta |-> now + countdown]

InitWebhook ==
    /\ now = 1
    /\ jobs = [j \in JobIds |-> [NewJob(0, {}) EXCEPT !.celery_task_id = TaskId(1, 1)]]
    /\ document = NewDocument
    /\ docFiles = {"quarantine"}
    /\ artifacts = EmptyBag
    /\ artifactFiles = {}
    /\ chains = [c \in ChainIds |->
                   IF c = 1 THEN [IdleChain EXCEPT !.job = 1, !.pc = "queued"]
                   ELSE IdleChain]
    /\ nextChain = 1
    /\ revoked = {}
    /\ \E t \in Tenants, en \in BOOLEAN, ev \in EndpointEvents :
          endpoints = <<WebhookEndpoint(Tenant, TRUE, {}), WebhookEndpoint(t, en, ev)>>
    /\ emitted = <<>>
    /\ deliveries = <<>>
    /\ webhookTasks = EmptyBag
    /\ reaper = IdleReaper
    /\ apiKeys = <<>>
    /\ settings = DefaultSettings
    /\ compare = NoCompare
    /\ taskRun = <<>>
    /\ retryReqs = EmptyBag
    /\ uploads = <<>>
    /\ documents = {}
    /\ quarantine = {}
    /\ last = NoResponse

webhookFrame ==
    <<reaper, apiKeys, settings, compare, document, docFiles, artifacts, artifactFiles,
      chains, nextChain, revoked,
      retryReqs, uploads, documents, quarantine, last>>

\* queue_job_webhooks called for job j, coming from (prev_status, prev_stage)
QueueJobWebhooks(j, prev) ==
    LET rows == queue_job_webhooks(j, jobs[j], prev[1], prev[2])
        ids == [i \in 1 .. Len(rows) |-> Len(deliveries) + i]
    IN /\ deliveries = <<>>
       /\ emitted' = rows
       /\ deliveries' = deliveries \o [i \in 1 .. Len(rows) |-> WebhookDelivery(rows[i])]
       /\ webhookTasks' =
             webhookTasks (+) SetToBag({DeliveryTask(ids[i], 0) : i \in 1 .. Len(rows)})
       /\ taskRun' = <<>>
       /\ UNCHANGED <<now, endpoints>>
       /\ UNCHANGED <<jobs, webhookFrame>>

\* (mutant) terminal means delivered only
SettledDeliveredOnly(delivery) == delivery.status = "DELIVERED"

\* the delivery is terminal: the task returns at once
Settled(delivery) == delivery.status \in {"DELIVERED", "FAILED"}

\* (mutant) a disabled endpoint is called like any other
EndpointDisabledIgnored(endpoint) == FALSE

EndpointDisabled(endpoint) == ~endpoint.enabled

\* (mutant) the same delay before every retry
BackoffDelayFlat(attempt) == _webhook_initial_backoff_seconds

\* the delay before the retry that follows the attempt-th failure
BackoffDelay(attempt) == _webhook_initial_backoff_seconds * (2 ^ (attempt - 1))

Is2xx(code) == 200 <= code /\ code < 300

\* the row the success branch saves
Delivered(delivery, code) ==
    [delivery EXCEPT !.status = "DELIVERED", !.response_code = code,
                     !.delivered_at = now, !.next_retry_at = NULL]

\* (mutant) a failed attempt is always followed by another
AttemptFailedUnbounded(delivery, code) ==
    [delivery EXCEPT !.attempt = delivery.attempt + 1, !.response_code = code,
                     !.last_error = "error", !.status = "RETRYING",
                     !.next_retry_at = now + BackoffDelay(delivery.attempt + 1)]

\* the row the except branch saves
AttemptFailed(delivery, code) ==
    LET attempt == delivery.attempt + 1
        counted == [delivery EXCEPT !.attempt = attempt, !.response_code = code,
                                    !.last_error = "error"]
    IN IF attempt >= _webhook_max_attempts
       THEN [counted EXCEPT !.status = "FAILED", !.next_retry_at = NULL]
       ELSE [counted EXCEPT !.status = "RETRYING",
                            !.next_retry_at = now + BackoffDelay(attempt)]

\* (mutant) a delivery that ends FAILED fails the job it is about
JobOfDeliveryFailed(job, delivery) ==
    IF delivery.status = "FAILED" THEN [job EXCEPT !.status = "FAILED"] ELSE job

\* the job row after a run of the delivery task: the task writes the delivery
\* and the endpoint and nothing else
JobOfDelivery(job, delivery) == job

\* the tables a run of the delivery task leaves alone
deliveryFrame ==
    <<reaper, apiKeys, settings, compare, document, docFiles, artifacts, artifactFiles,
      chains, nextChain, revoked,
      retryReqs, uploads, documents, quarantine>>

\* a worker runs the delivery task t; the endpoint, if called, answers code
DeliveryRun(t, code) ==
    /\ BagIn(t, webhookTasks)
    /\ t.eta <= now
    /\ LET id == t.delivery
           delivery == deliveries[id]
           endpoint == endpoints[delivery.endpoint]
           taken == webhookTasks (-) SetToBag({t})
       IN IF Settled(delivery)
          THEN /\ taskRun' = <<TaskRun(id, FALSE)>>
               /\ webhookTasks' = taken
               /\ UNCHANGED <<deliveries, endpoints>>
          ELSE IF EndpointDisabled(endpoint)
          THEN /\ taskRun' = <<TaskRun(id, FALSE)>>
               /\ deliveries' = [deliveries EXCEPT ![id].status = "FAILED",
                                                   ![id].last_error = "Endpoint disabled"]
               /\ webhookTasks' = taken
               /\ UNCHANGED endpoints
          ELSE IF Is2xx(code)
          THEN /\ taskRun' = <<TaskRun(id, TRUE)>>
               /\ deliveries' = [deliveries EXCEPT ![id] = Delivered(delivery, code)]
               /\ endpoints' = [endpoints EXCEPT ![delivery.endpoint].last_success_at = now]
               /\ webhookTasks' = taken
          ELSE LET failed == AttemptFailed(delivery, code)
               IN /\ taskRun' = <<TaskRun(id, TRUE)>>
                  /\ deliveries' = [deliveries EXCEPT ![id] = failed]
                  /\ endpoints' =
                        [endpoints EXCEPT ![delivery.endpoint].last_failure_at = now]
                  /\ webhookTasks' =
                        IF failed.status = "RETRYING"
                        THEN taken (+) SetToBag({DeliveryTask(id, BackoffDelay(failed.attempt))})
                        ELSE taken
    /\ jobs' = [jobs EXCEPT ![deliveries[t.delivery].payload_json.job] =
                                JobOfDelivery(@, deliveries'[t.delivery])]
    /\ emitted' = <<>>
    /\ UNCHANGED now
    /\ UNCHANGED deliveryFrame

deliver_webhook_delivery(t, code) ==
    /\ DeliveryRun(t, code)
    /\ UNCHANGED last

\* PATCH /webhooks/{id}/ switching the endpoint on or off
PatchEndpoint(e, enabled) ==
    /\ endpoints[e].enabled # enabled
    /\ endpoints' = [endpoints EXCEPT ![e].enabled = enabled]
    /\ emitted' = <<>>
    /\ taskRun' = <<>>
    /\ UNCHANGED <<now, deliveries, webhookTasks>>
    /\ UNCHANGED <<jobs, webhookFrame>>

\* the broker hands out again the task of a delivery none is queued for
\* (at-least-once delivery)
RedeliverTask(id) ==
    /\ id \in DOMAIN deliveries
    /\ \A t \in BagToSet(webhookTasks) : t.delivery # id
    /\ webhookTasks' = webhookTasks (+) SetToBag({DeliveryTask(id, 0)})
    /\ emitted' = <<>>
    /\ taskRun' = <<>>
    /\ UNCHANGED <<now, endpoints, deliveries>>
    /\ UNCHANGED <<jobs, webhookFrame>>

\* time passes until the next retry is due
AwaitRetry ==
    /\ \E t \in BagToSet(webhookTasks) :
          /\ t.eta > now
          /\ \A u \in BagToSet(webhookTasks) : u.eta > now => t.eta <= u.eta
          /\ now' = t.eta
    /\ emitted' = <<>>
    /\ taskRun' = <<>>
    /\ UNCHANGED <<endpoints, deliveries, webhookTasks>>
    /\ UNCHANGED <<jobs, webhookFrame>>

NextWebhook ==
    \/ \E j \in JobIds, prev \in PreviousPairs : QueueJobWebhooks(j, prev)
    \/ \E t \in BagToSet(webhookTasks), code \in WebhookResponses :
          deliver_webhook_delivery(t, code)
    \/ \E e \in EndpointIds, enabled \in BOOLEAN : PatchEndpoint(e, enabled)
    \/ \E id \in DOMAIN deliveries : RedeliverTask(id)
    \/ AwaitRetry

SpecWebhook == InitWebhook /\ [][NextWebhook]_vars

\* ==================================================================== SpecNotify
\* One job's pipeline next to the deliveries of one notification about it: the
\* tenant has a single endpoint, and the adapters are followed through the
\* steps that notify nobody.
InitNotify ==
    /\ InitWebhook
    /\ endpoints[1] = WebhookEndpoint(Tenant, TRUE, {})
    /\ endpoints[2] = WebhookEndpoint("B", TRUE, {})

Unnotified == emitted' = <<>>

NextNotify ==
    \/ \E j \in JobIds, prev \in PreviousPairs : QueueJobWebhooks(j, prev)
    \/ \E t \in BagToSet(webhookTasks), code \in WebhookResponses :
          deliver_webhook_delivery(t, code)
    \/ \E enabled \in BOOLEAN : PatchEndpoint(1, enabled)
    \/ AwaitRetry
    \/ \E c \in ChainIds : ScanEnter(c) /\ Unnotified
    \/ \E c \in ChainIds, result \in RaceScanResults : ScanFinish(c, result) /\ Unnotified
    \/ \E c \in ChainIds : ConvertEnter(c) /\ Unnotified
    \/ \E c \in ChainIds, engineOk \in BOOLEAN : ConvertFinish(c, engineOk) /\ Unnotified
    \/ \E c \in ChainIds : ExportEnter(c) /\ Unnotified
    \/ \E c \in ChainIds, loadOk \in BOOLEAN : ExportFinish(c, loadOk) /\ Unnotified
    \/ \E c \in ChainIds : Finalize(c) /\ Unnotified

SpecNotify == InitNotify /\ [][NextNotify]_vars

\* ==================================================================== SpecReaper
\* The two cleanup tasks statement by statement, next to the pipeline, cancel and
\* retry of the one job of a document: each file removal and each row deletion
\* is a step of its own, and other workers run between them.

\* the job row after its document was deleted (on_delete=CASCADE)
DeletedJob == [NoRow EXCEPT !.status = "DELETED"]

\* the artifact rows of the jobs of the document
ArtifactsOfDocument == BagToSet(artifacts)

reaperFrame ==
    <<now, chains, nextChain, revoked, endpoints, deliveries, webhookTasks, retryReqs,
      uploads, documents, quarantine, apiKeys, settings, compare>>

Quiet ==
    /\ last' = NoResponse
    /\ emitted' = <<>>
    /\ taskRun' = <<>>

\* DocumentAdmin: an operator enters an expires_at that has already passed
AdminBackdateDocumentExpiry ==
    /\ document # NoDoc
    /\ document.expires_at = NULL
    /\ document' = [document EXCEPT !.expires_at = now - 1]
    /\ Quiet
    /\ UNCHANGED <<jobs, docFiles, artifacts, artifactFiles, reaper>>
    /\ UNCHANGED reaperFrame

\* cleanup_expired_artifacts up to the start of its loop: the queryset is
\* evaluated once, when the loop starts
ReapArtifactsBegin ==
    /\ reaper.task = "none"
    /\ \E a \in BagToSet(artifacts) : Expired(a)
    /\ reaper' = [IdleReaper EXCEPT !.task = "artifacts", !.pc = "file",
                                    !.todo = {a \in BagToSet(artifacts) : Expired(a)}]
    /\ Quiet
    /\ UNCHANGED <<jobs, document, docFiles, artifacts, artifactFiles>>
    /\ UNCHANGED reaperFrame

\* cleanup_expired_artifacts, loop body: os.remove of the file of the next row
ReapArtifactFile(a) ==
    /\ reaper.task = "artifacts" /\ reaper.pc = "file"
    /\ a \in reaper.todo
    /\ artifactFiles' = os_remove(artifactFiles, <<a.job, a.kind>>)
    /\ reaper' = [reaper EXCEPT !.pc = "row", !.cur = <<a>>, !.todo = reaper.todo \ {a}]
    /\ Quiet
    /\ UNCHANGED <<jobs, document, docFiles, artifacts>>
    /\ UNCHANGED reaperFrame

\* artifact.delete(): the row goes if it is still in the table
DeleteArtifact(arts, a) == [x \in BagToSet(arts) \ {a} |-> arts[x]]

\* cleanup_expired_artifacts, loop body: artifact.delete(), then the next row
ReapArtifactRow ==
    /\ reaper.task = "artifacts" /\ reaper.pc = "row"
    /\ artifacts' = DeleteArtifact(artifacts, reaper.cur[1])
    /\ reaper' = IF reaper.todo = {} THEN IdleReaper
                 ELSE [reaper EXCEPT !.pc = "file", !.cur = <<>>]
    /\ Quiet
    /\ UNCHANGED <<jobs, document, docFiles, artifactFiles>>
    /\ UNCHANGED reaperFrame

\* cleanup_expired_documents up to the start of its inner loop: the expired
\* document is loaded, and so are the artifact rows of its jobs
ReapDocumentsBegin ==
    /\ reaper.task = "none"
    /\ document # NoDoc
    /\ Expired(document)
    /\ reaper' = [IdleReaper EXCEPT !.task = "documents", !.pc = "file",
                                    !.todo = ArtifactsOfDocument, !.doc = document]
    /\ Quiet
    /\ UNCHANGED <<jobs, document, docFiles, artifacts, artifactFiles>>
    /\ UNCHANGED reaperFrame

\* cleanup_expired_documents, inner loop: os.remove of the file of the next row
ReapDocArtifactFile(a) ==
    /\ reaper.task = "documents" /\ reaper.pc = "file"
    /\ a \in reaper.todo
    /\ artifactFiles' = os_remove(artifactFiles, <<a.job, a.kind>>)
    /\ reaper' = [reaper EXCEPT !.todo = reaper.todo \ {a}]
    /\ Quiet
    /\ UNCHANGED <<jobs, document, docFiles, artifacts>>
    /\ UNCHANGED reaperFrame

\* cleanup_expired_documents: artifacts.delete() runs the filter again and
\* deletes every row it finds now
ReapDocArtifactRows ==
    /\ reaper.task = "documents" /\ reaper.pc = "file"
    /\ reaper.todo = {}
    /\ artifacts' = EmptyBag
    /\ reaper' = [reaper EXCEPT !.pc = "paths"]
    /\ Quiet
    /\ UNCHANGED <<jobs, document, docFiles, artifactFiles>>
    /\ UNCHANGED reaperFrame

\* filter(None, [doc.get_quarantine_path(), doc.get_clean_path()]) on the row
\* the task loaded: get_clean_path is "" while storage_relpath_clean is
DocumentPaths(doc) ==
    {"quarantine"} \cup (IF doc.storage_relpath_clean = "" THEN {} ELSE {"clean"})

\* cleanup_expired_documents: os.remove of the copies the loaded row names
ReapDocFiles ==
    /\ reaper.task = "documents" /\ reaper.pc = "paths"
    /\ docFiles' = docFiles \ DocumentPaths(reaper.doc)
    /\ reaper' = [reaper EXCEPT !.pc = "row"]
    /\ Quiet
    /\ UNCHANGED <<jobs, document, artifacts, artifactFiles>>
    /\ UNCHANGED reaperFrame

\* cleanup_expired_documents: doc.delete() cascades to the jobs and through
\* them to the artifact rows
ReapDocRow ==
    /\ reaper.task = "documents" /\ reaper.pc = "row"
    /\ document' = NoDoc
    /\ jobs' = [j \in JobIds |-> DeletedJob]
    /\ artifacts' = EmptyBag
    /\ reaper' = IdleReaper
    /\ Quiet
    /\ UNCHANGED <<docFiles, artifactFiles>>
    /\ UNCHANGED reaperFrame

\* an adapter or a request finds the rows it loads
RowsExist == document # NoDoc

InitReaper ==
    /\ Init
    /\ \A j \in JobIds : jobs[j].max_retries = 1

NextReaper ==
    \/ \E c \in ChainIds : RowsExist /\ ScanEnter(c)
    \/ \E c \in ChainIds, result \in RaceScanResults : RowsExist /\ ScanFinish(c, result)
    \/ \E c \in ChainIds : RowsExist /\ ConvertEnter(c)
    \/ \E c \in ChainIds, engineOk \in BOOLEAN : RowsExist /\ ConvertFinish(c, engineOk)
    \/ \E c \in ChainIds : RowsExist /\ ExportEnter(c)
    \/ \E c \in ChainIds, loadOk \in BOOLEAN : RowsExist /\ ExportFinish(c, loadOk)
    \/ \E c \in ChainIds : RowsExist /\ Finalize(c)
    \/ \E j \in JobIds : RowsExist /\ Cancel(j, FALSE)
    \/ \E j \in JobIds : RowsExist /\ Retry(j)
    \/ \E a \in BagToSet(artifacts) : AdminBackdateArtifactExpiry(a)
    \/ AdminBackdateDocumentExpiry
    \/ ReapArtifactsBegin
    \/ \E a \in reaper.todo : ReapArtifactFile(a)
    \/ ReapArtifactRow
    \/ ReapDocumentsBegin
    \/ \E a \in reaper.todo : ReapDocArtifactFile(a)
    \/ ReapDocArtifactRows
    \/ ReapDocFiles
    \/ ReapDocRow

SpecReaper == InitReaper /\ [][NextReaper]_vars

\* ==================================================================== SpecOptions
\* The options of an ingest request as DocumentViewSet.create resolves them.  A
\* JSON object is a function from its keys to its values; a value that may be
\* None is <<>> for None and <<object>> otherwise.
None == <<>>
Some(object) == <<object>>
EmptyDict == [key \in {} |-> 0]

\* Python truth value of an optional JSON object
Falsy(optional) == optional = None \/ DOMAIN optional[1] = {}

\* PROFILE_DEFINITIONS, the part apply_profile_to_options reads
PROFILE_DEFINITIONS ==
    [fast_text |-> [exports |-> <<"text", "markdown", "doctags">>],
     ocr_only |-> [exports |-> <<"text", "markdown", "doctags">>],
     structured |-> [exports |-> <<"text", "markdown", "doctags", "chunks_json">>],
     full_vlm |->
         [exports |-> <<"text", "markdown", "doctags", "chunks_json", "figures_zip">>]]

PROFILE_NAMES == DOMAIN PROFILE_DEFINITIONS

\* the profile field of the request: "" when the field is absent
ProfileChoices == {""} \cup PROFILE_NAMES

\* an APIKey row as it is created
APIKey(tenant, raw_key_hash, scopes, docling_options_json) ==
    [tenant |-> tenant, key_hash |-> raw_key_hash, active |-> TRUE, scopes |-> scopes,
     last_used_at |-> NULL, docling_options_json |-> docling_options_json]

\* options_json of the request
CallerOptions ==
    {None, Some(EmptyDict), Some([max_num_pages |-> 12, exports |-> <<"text">>]),
     Some([exports |-> <<"chunks_json">>]), Some([max_num_pages |-> 7])}

\* APIKey.docling_options_json
KeyOptions == {None, Some([max_num_pages |-> 3]), Some([exports |-> <<"markdown">>])}

\* settings.DOC_DEFAULT_OPTIONS
SystemOptions == {EmptyDict, [ocr |-> TRUE], [ocr |-> FALSE, exports |-> <<"doctags">>]}

\* getattr(api_key.tenant, "docling_options_json", None): Tenant has no such field
TenantDefault(tenant) == None

\* options_json or api_key.docling_options_json or getattr(...) or
\* settings.DOC_DEFAULT_OPTIONS or {}: the first object that is truthy, and where
\* it lives
ResolveOptions(caller, key) ==
    IF ~Falsy(caller) THEN [origin |-> "caller", options |-> caller[1]]
    ELSE IF ~Falsy(key.docling_options_json)
    THEN [origin |-> "key", options |-> key.docling_options_json[1]]
    ELSE IF ~Falsy(TenantDefault(key.tenant))
    THEN [origin |-> "tenant", options |-> TenantDefault(key.tenant)[1]]
    ELSE IF DOMAIN settings.DOC_DEFAULT_OPTIONS # {}
    THEN [origin |-> "settings", options |-> settings.DOC_DEFAULT_OPTIONS]
    ELSE [origin |-> "fresh", options |-> EmptyDict]

\* merged["exports"] = list(exports) on a copy of the object
WithExports(options, exports) ==
    [key \in DOMAIN options \cup {"exports"} |->
        IF key = "exports" THEN exports ELSE options[key]]

\* (mutant) exports the object already carries are kept
apply_profile_to_optionsKeepExports(options, profile) ==
    IF profile = "" THEN [merged |-> options, options |-> options]
    ELSE [merged |-> IF "exports" \in DOMAIN options THEN options
                     ELSE WithExports(options, PROFILE_DEFINITIONS[profile].exports),
          options |-> options]

\* apply_profile_to_options: what it returns, and the object it was handed as
\* the call leaves it
apply_profile_to_options(options, profile) ==
    IF profile = "" THEN [merged |-> options, options |-> options]
    ELSE [merged |-> WithExports(options, PROFILE_DEFINITIONS[profile].exports),
          options |-> options]

\* the tables before any upload, with one key of the tenant
InitOptions ==
    /\ now = 1
    /\ jobs = [j \in JobIds |-> NoRow]
    /\ document = NoDoc
    /\ docFiles = {}
    /\ artifacts = EmptyBag
    /\ artifactFiles = {}
    /\ chains = [c \in ChainIds |-> IdleChain]
    /\ nextChain = 0
    /\ revoked = {}
    /\ endpoints = <<>>
    /\ emitted = <<>>
    /\ deliveries = <<>>
    /\ webhookTasks = EmptyBag
    /\ reaper = IdleReaper
    /\ \E default \in KeyOptions :
          apiKeys = <<APIKey(Tenant, <<"hmac-sha256", "s1">>, {"documents:write"}, default)>>
    /\ \E default \in SystemOptions :
          settings = [DefaultSettings EXCEPT !.DOC_DEFAULT_OPTIONS = default]
    /\ compare = NoCompare
    /\ taskRun = <<>>
    /\ retryReqs = EmptyBag
    /\ uploads = <<>>
    /\ documents = {}
    /\ quarantine = {}
    /\ last = NoResponse

\* DocumentViewSet.create, the ingest branch up to the options the job is
\* created with: every object the merge was handed is stored back as the merge
\* left it
IngestOptions(k, caller, profile) ==
    LET resolved == ResolveOptions(caller, apiKeys[k])
        applied == apply_profile_to_options(resolved.options, profile)
    IN /\ last' = [op |-> "ingest", job |-> 0, code |-> 201, error |-> "",
                   key |-> k, caller |-> caller, profile |-> profile,
                   caller_after |-> IF resolved.origin = "caller"
                                    THEN Some(applied.options) ELSE caller,
                   options_json |-> applied.merged]
       /\ apiKeys' = IF resolved.origin = "key"
                     THEN [apiKeys EXCEPT ![k].docling_options_json = Some(applied.options)]
                     ELSE apiKeys
       /\ settings' = IF resolved.origin = "settings"
                      THEN [settings EXCEPT !.DOC_DEFAULT_OPTIONS = applied.options]
                      ELSE settings
       /\ emitted' = <<>>
       /\ taskRun' = <<>>
       /\ UNCHANGED <<now, jobs, document, docFiles, artifacts, artifactFiles, chains,
                      nextChain, revoked, endpoints, deliveries, webhookTasks, reaper,
                      compare, retryReqs, uploads, documents, quarantine>>

NextOptions ==
    \E k \in DOMAIN apiKeys, caller \in CallerOptions, profile \in ProfileChoices :
       IngestOptions(k, caller, profile)

SpecOptions == InitOptions /\ [][NextOptions]_vars

\* ==================================================================== SpecCompare
\* DocumentViewSet.compare next to the scan of the upload's own job and to the
\* document reaper, which between them produce the three states of the
\* document's files: quarantined, clean, gone.
MaxProfiles == 2
MaxCompareJobs == 3

\* the profiles a request names
CompareProfiles == {"fast_text", "structured"}
ProfileLists == UNION {[1 .. n -> CompareProfiles] : n \in 1 .. MaxProfiles}

\* options_json of a compare request
CompareOptions == {None, Some([max_num_pages |-> 12]), Some([max_num_pages |-> -1])}

\* validate_docling_options raises ValidationError
InvalidOptions(options) ==
    "max_num_pages" \in DOMAIN options /\ options.max_num_pages < 0

\* the IngestionJob row compare creates, with the root task id that
\* start_ingestion_pipeline stores
CompareJob(id, key, profile, comparison_id, relpath, options) ==
    [tenant |-> key.tenant, document |-> 1, profile |-> profile,
     comparison_id |-> comparison_id, source_relpath |-> relpath,
     status |-> "QUEUED", stage |-> "SCANNING", options_json |-> options,
     celery_task_id |-> <<"compare", id>>]

\* (mutant) one copy is made for the whole request
CopyRelpathShared(comparison_id, uuid) == <<"copy", comparison_id>>

\* uploads/quarantine/<tenant>/<doc-uuid>-<uuid4>.pdf
CopyRelpath(comparison_id, uuid) == <<"copy", uuid>>

\* the loop of compare over the profiles: copy, create, publish; a validation
\* error ends the request where the loop stands
RECURSIVE CompareLoop(_, _, _, _, _)
CompareLoop(profiles, c, key, base, comparison_id) ==
    IF profiles = <<>> THEN [compare |-> c, error_code |-> ""]
    ELSE LET profile == Head(profiles)
             options == apply_profile_to_options(ResolveOptions(base, key).options,
                                                 profile).merged
             id == Len(c.jobs) + 1
             relpath == CopyRelpath(comparison_id, c.uuids + 1)
             job == CompareJob(id, key, profile, comparison_id, relpath, options)
         IN IF InvalidOptions(options)
            THEN [compare |-> c, error_code |-> "INVALID_OPTIONS"]
            ELSE CompareLoop(Tail(profiles),
                             [c EXCEPT !.uuids = c.uuids + 1,
                                       !.files = c.files \cup {relpath},
                                       !.jobs = Append(c.jobs, job),
                                       !.published = Append(c.published, id)],
                             key, base, comparison_id)

\* the copy of the document compare reads: "" when there is none
SourceFile ==
    IF "quarantine" \in docFiles THEN "quarantine"
    ELSE IF document.storage_relpath_clean # "" /\ "clean" \in docFiles THEN "clean"
    ELSE ""

\* DocumentViewSet.compare for a request of key k that passed the permission
\* checks
CompareRequest(k, profiles, base) ==
    /\ Len(compare.jobs) + Len(profiles) <= MaxCompareJobs
    /\ LET key == apiKeys[k]
           comparison_id == compare.uuids + 1
           result == CompareLoop(profiles, [compare EXCEPT !.uuids = comparison_id],
                                 key, base, comparison_id)
       IN IF document = NoDoc \/ key.tenant # Tenant
          THEN /\ last' = Response("compare", 0, 404, "")
               /\ UNCHANGED compare
          ELSE IF SourceFile = ""
          THEN /\ last' = Response("compare", 0, 400, "MISSING_SOURCE_FILE")
               /\ UNCHANGED compare
          ELSE /\ compare' = IF result.compare.jobs = compare.jobs THEN compare
                              ELSE result.compare
               /\ last' = IF result.error_code # ""
                          THEN Response("compare", 0, 400, result.error_code)
                          ELSE [op |-> "compare", job |-> 0, code |-> 201, error |-> "",
                                comparison_id |-> comparison_id, profiles |-> profiles,
                                jobs |-> Len(compare.jobs) + 1 .. Len(result.compare.jobs)]
    /\ emitted' = <<>>
    /\ taskRun' = <<>>
    /\ UNCHANGED <<now, jobs, document, docFiles, artifacts, artifactFiles, chains,
                   nextChain, revoked, endpoints, deliveries, webhookTasks, reaper,
                   settings, retryReqs, uploads, documents, quarantine>>

Compare(k, profiles, base) ==
    /\ CompareRequest(k, profiles, base)
    /\ UNCHANGED apiKeys

\* the tables after an upload with ingest by the tenant's key
InitCompare ==
    /\ now = 1
    /\ jobs = [j \in JobIds |-> [NewJob(0, {}) EXCEPT !.celery_task_id = TaskId(1, 1)]]
    /\ document = NewDocument
    /\ docFiles = {"quarantine"}
    /\ artifacts = EmptyBag
    /\ artifactFiles = {}
    /\ chains = [c \in ChainIds |->
                   IF c = 1 THEN [IdleChain EXCEPT !.job = 1, !.pc = "queued"]
                   ELSE IdleChain]
    /\ nextChain = 1
    /\ revoked = {}
    /\ endpoints = <<>>
    /\ emitted = <<>>
    /\ deliveries = <<>>
    /\ webhookTasks = EmptyBag
    /\ reaper = IdleReaper
    /\ apiKeys = <<APIKey(Tenant, <<"hmac-sha256", "s1">>, {"documents:write"}, None)>>
    /\ settings = DefaultSettings
    /\ compare = NoCompare
    /\ taskRun = <<>>
    /\ retryReqs = EmptyBag
    /\ uploads = <<>>
    /\ documents = {}
    /\ quarantine = {}
    /\ last = NoResponse

NextCompare ==
    \/ \E profiles \in ProfileLists, base \in CompareOptions : Compare(1, profiles, base)
    \/ \E c \in ChainIds : RowsExist /\ ScanEnter(c)
    \/ \E c \in ChainIds, result \in RaceScanResults : RowsExist /\ ScanFinish(c, result)
    \/ AdminBackdateDocumentExpiry
    \/ ReapDocumentsBegin
    \/ ReapDocArtifactRows
    \/ ReapDocFiles
    \/ ReapDocRow

SpecCompare == InitCompare /\ [][NextCompare]_vars

\* ==================================================================== SpecApi
\* The /v1 requests of two tenants' keys and the internal endpoints: a request
\* is one step through authentication, the permission classes of the view, the
\* tenant's queryset and the handler.
HOUR == 1

\* raw secrets a request presents: the two that were issued, the one the
\* rotation of the first key issues, one that was never issued
Secrets == {"s1", "s2", "r1", "bad"}

\* the headers of the requests of the two keys and of a request without one
KeyHeaders == {<<>>, <<"Api-Key", "s1">>, <<"Api-Key", "s2">>}
InitialSecret == <<"s1", "s2">>
RotatedSecret == <<"r1", "r2">>

\* APIKey._hash_key: HMAC-SHA256 of the secret under settings.SECRET_KEY
_hash_key(raw_key) == <<"hmac-sha256", raw_key>>

\* the Authorization header as the words a space separates: <<>> when the
\* header is missing
AuthHeaders ==
    {<<>>, <<"Api-Key">>, <<"Bearer", "s1">>}
       \cup {<<"Api-Key", raw_key>> : raw_key \in Secrets}

\* the answer of the key table when no row matches
NoKey == 0

\* (mutant) the active flag is not part of the lookup
lookup_from_rawInactiveToo(raw_key) ==
    LET found == {k \in DOMAIN apiKeys : apiKeys[k].key_hash = _hash_key(raw_key)}
    IN IF found = {} THEN NoKey ELSE CHOOSE k \in found : TRUE

\* APIKey.lookup_from_raw
lookup_from_raw(raw_key) ==
    LET found == {k \in DOMAIN apiKeys : /\ apiKeys[k].key_hash = _hash_key(raw_key)
                                         /\ apiKeys[k].active}
    IN IF found = {} THEN NoKey ELSE CHOOSE k \in found : TRUE

\* APIKeyAuthentication.authenticate: the key the request is attributed to
authenticate(header) ==
    IF Len(header) = 0 THEN NoKey
    ELSE IF Len(header) = 1 THEN NoKey
    ELSE IF header[1] # "Api-Key" THEN NoKey
    ELSE lookup_from_raw(header[2])

\* APIKeyAuthentication._touch_last_used
_touch_last_used(keys, k) ==
    IF keys[k].last_used_at # NULL /\ keys[k].last_used_at > now - HOUR THEN keys
    ELSE [keys EXCEPT ![k].last_used_at = now]

\* the key table after authenticate ran
Authenticated(header) ==
    IF authenticate(header) = NoKey THEN apiKeys
    ELSE _touch_last_used(apiKeys, authenticate(header))

\* get_permissions of the four viewsets: the scopes a view action requires
required_scopes(action) ==
    CASE action \in {"document_list", "document_retrieve"} -> {"documents:read"}
      [] action \in {"document_create", "compare"} -> {"documents:write"}
      [] action \in {"artifact_list", "artifact_retrieve"} -> {"artifacts:read"}
      [] action \in {"job_list", "job_retrieve", "cancel", "retry"} -> {"jobs:read"}
      [] action \in {"webhook_list", "webhook_retrieve"} -> {"webhooks:read"}
      [] action \in {"webhook_create", "webhook_update", "webhook_destroy"} ->
           {"webhooks:write"}

\* (mutant) any key passes
HasScopeUnchecked(k, action) == k # NoKey

\* HasScope.has_permission
HasScope(k, action) ==
    /\ k # NoKey
    /\ required_scopes(action) = {} \/ required_scopes(action) \subseteq apiKeys[k].scopes

\* the status the permission checks end the request with: 0 when it goes on
\* to the handler
Admission(header, action) ==
    IF authenticate(header) = NoKey THEN 401
    ELSE IF ~HasScope(authenticate(header), action) THEN 403
    ELSE 0

\* a request and what it is answered with: the view action, the row addressed,
\* the status, the error code, the Authorization header, the rows in the body
ApiResponse(action, target, code, error, header, rows) ==
    [op |-> action, job |-> target, code |-> code, error |-> error, header |-> header,
     rows |-> rows]

Row(resource, id, tenant) == [resource |-> resource, id |-> id, tenant |-> tenant]

\* the WebhookEndpoint row after DELETE
NoEndpoint == WebhookEndpoint("", FALSE, {})

\* the rows of the tables behind the four viewsets
Rows(resource) ==
    CASE resource = "document" ->
           IF document = NoDoc THEN {} ELSE {Row("document", 1, Tenant)}
      [] resource = "job" ->
           {Row("job", <<"upload", j>>, Tenant) : j \in {x \in JobIds : document # NoDoc}}
              \cup {Row("job", <<"compare", i>>, compare.jobs[i].tenant) :
                      i \in DOMAIN compare.jobs}
      [] resource = "artifact" ->
           {Row("artifact", <<a.job, a.kind>>, a.tenant) : a \in BagToSet(artifacts)}
      [] resource = "webhook" ->
           {Row("webhook", e, endpoints[e].tenant) :
              e \in {x \in DOMAIN endpoints : endpoints[x] # NoEndpoint}}

\* (mutant) the queryset is not filtered
get_querysetUnfiltered(resource, k) == Rows(resource)

\* get_queryset of the four viewsets: filter(tenant=api_key.tenant)
get_queryset(resource, k) == {row \in Rows(resource) : row.tenant = apiKeys[k].tenant}

\* get_object: the row with that id in the queryset, as a set
get_object(resource, k, id) == {row \in get_queryset(resource, k) : row.id = id}

apiFrame ==
    <<now, jobs, document, docFiles, artifacts, artifactFiles, chains, nextChain, revoked,
      endpoints, deliveries, webhookTasks, reaper, settings, compare, retryReqs, uploads,
      documents, quarantine>>

\* the request ends before the handler changes anything
Answered(header, action, target, code, rows) ==
    /\ last' = ApiResponse(action, target, code, "", header, rows)
    /\ apiKeys' = Authenticated(header)
    /\ emitted' = <<>>
    /\ taskRun' = <<>>
    /\ UNCHANGED apiFrame

\* the checks before the handler of a detail route: 0 when the handler runs
Dispatch(header, action, resource, id) ==
    IF Admission(header, action) # 0 THEN Admission(header, action)
    ELSE IF get_object(resource, authenticate(header), id) = {} THEN 404
    ELSE 0

\* list of the four viewsets
List(header, resource) ==
    LET action == resource \o "_list"
    IN IF Admission(header, action) # 0
       THEN Answered(header, action, 0, Admission(header, action), {})
       ELSE Answered(header, action, 0, 200, get_queryset(resource, authenticate(header)))

\* retrieve of the four viewsets; ArtifactViewSet.retrieve answers 404 when the
\* file is not on disk
Retrieve(header, resource, id) ==
    LET action == resource \o "_retrieve"
        code == Dispatch(header, action, resource, id)
    IN IF code # 0 THEN Answered(header, action, id, code, {})
       ELSE IF resource = "artifact" /\ id \notin artifactFiles
       THEN Answered(header, action, id, 404, {})
       ELSE Answered(header, action, id, 200,
                     get_object(resource, authenticate(header), id))

\* POST /v1/jobs/{id}/cancel
ApiCancel(header, j) ==
    LET code == Dispatch(header, "cancel", "job", <<"upload", j>>)
    IN IF code # 0 THEN Answered(header, "cancel", j, code, {})
       ELSE CancelRequest(j, FALSE) /\ apiKeys' = Authenticated(header)

\* POST /v1/jobs/{id}/retry
ApiRetry(header, j) ==
    LET code == Dispatch(header, "retry", "job", <<"upload", j>>)
    IN IF code # 0 THEN Answered(header, "retry", j, code, {})
       ELSE RetryRequest(j) /\ apiKeys' = Authenticated(header)

\* POST /v1/documents/{id}/compare
ApiCompare(header, profiles, base) ==
    LET code == Dispatch(header, "compare", "document", 1)
    IN IF code # 0 THEN Answered(header, "compare", 1, code, {})
       ELSE /\ CompareRequest(authenticate(header), profiles, base)
            /\ apiKeys' = Authenticated(header)

\* the frame of the handlers of WebhookEndpointViewSet
webhookApiFrame ==
    <<now, jobs, document, docFiles, artifacts, artifactFiles, chains, nextChain, revoked,
      deliveries, webhookTasks, reaper, settings, compare, retryReqs, uploads, documents,
      quarantine>>

\* POST /v1/webhooks: perform_create stores the key's tenant and the default
\* events when the request names none
ApiWebhookCreate(header, events) ==
    IF Admission(header, "webhook_create") # 0
    THEN Answered(header, "webhook_create", 0, Admission(header, "webhook_create"), {})
    ELSE LET k == authenticate(header)
             id == Len(endpoints) + 1
             row == WebhookEndpoint(apiKeys[k].tenant, TRUE,
                                    IF events = {} THEN {"job.updated"} ELSE events)
         IN /\ endpoints' = Append(endpoints, row)
            /\ last' = ApiResponse("webhook_create", id, 201, "", header,
                                   {Row("webhook", id, row.tenant)})
            /\ apiKeys' = Authenticated(header)
            /\ emitted' = <<>>
            /\ taskRun' = <<>>
            /\ UNCHANGED webhookApiFrame

\* PATCH /v1/webhooks/{id} with enabled
ApiWebhookUpdate(header, e, enabled) ==
    LET code == Dispatch(header, "webhook_update", "webhook", e)
    IN IF code # 0 THEN Answered(header, "webhook_update", e, code, {})
       ELSE /\ endpoints' = [endpoints EXCEPT ![e].enabled = enabled]
            /\ last' = ApiResponse("webhook_update", e, 200, "", header,
                                   get_object("webhook", authenticate(header), e))
            /\ apiKeys' = Authenticated(header)
            /\ emitted' = <<>>
            /\ taskRun' = <<>>
            /\ UNCHANGED webhookApiFrame

\* DELETE /v1/webhooks/{id}
ApiWebhookDestroy(header, e) ==
    LET code == Dispatch(header, "webhook_destroy", "webhook", e)
    IN IF code # 0 THEN Answered(header, "webhook_destroy", e, code, {})
       ELSE /\ endpoints' = [endpoints EXCEPT ![e] = NoEndpoint]
            /\ last' = ApiResponse("webhook_destroy", e, 204, "", header, {})
            /\ apiKeys' = Authenticated(header)
            /\ emitted' = <<>>
            /\ taskRun' = <<>>
            /\ UNCHANGED webhookApiFrame

\* APIKeyAdmin.deactivate_keys
deactivate_keys(k) ==
    /\ apiKeys[k].active
    /\ apiKeys' = [apiKeys EXCEPT ![k].active = FALSE]
    /\ Quiet
    /\ UNCHANGED apiFrame

\* APIKeyAdmin.rotate_keys: generate_key draws a secret never issued before
rotate_keys(k) ==
    /\ apiKeys[k].key_hash = _hash_key(InitialSecret[k])
    /\ apiKeys' = [apiKeys EXCEPT ![k].key_hash = _hash_key(RotatedSecret[k]),
                                  ![k].active = TRUE]
    /\ Quiet
    /\ UNCHANGED apiFrame

\* (mutant) a token in the query string is accepted too
_require_internal_tokenQuery(header_token, query_token) ==
    IF settings.INTERNAL_ENDPOINTS_TOKEN = "" THEN 403
    ELSE IF settings.INTERNAL_ENDPOINTS_TOKEN \notin {header_token, query_token} THEN 403
    ELSE 0

\* _require_internal_token: 403, or 0 when the view goes on; header_token is ""
\* when the request has no X-Internal-Token header
_require_internal_token(header_token, query_token) ==
    IF settings.INTERNAL_ENDPOINTS_TOKEN = "" THEN 403
    ELSE IF header_token = "" \/ header_token # settings.INTERNAL_ENDPOINTS_TOKEN THEN 403
    ELSE 0

InternalEndpoints == {"healthz", "readyz", "metrics"}
InternalTokens == {"", "secret-token", "other-token", "stale-token"}

\* healthz, readyz, metrics; checksOk: the database and the broker answer
InternalRequest(endpoint, header_token, query_token, checksOk) ==
    /\ last' = [op |-> endpoint, job |-> 0, error |-> "",
                header_token |-> header_token, query_token |-> query_token,
                code |-> IF _require_internal_token(header_token, query_token) # 0
                         THEN _require_internal_token(header_token, query_token)
                         ELSE IF endpoint = "readyz" /\ ~checksOk THEN 503 ELSE 200]
    /\ emitted' = <<>>
    /\ taskRun' = <<>>
    /\ UNCHANGED <<apiFrame, apiKeys>>

AllScopes ==
    {"documents:read", "documents:write", "jobs:read", "artifacts:read", "webhooks:read",
     "webhooks:write"}

\* the scope sets of the first key
ScopeSets == {AllScopes, {"webhooks:read"}, {"webhooks:write"}, {}}

\* the tables after an upload with ingest by tenant A, with a key of each of
\* the two tenants; the key of tenant B was used within the hour
InitApi ==
    /\ now = 1
    /\ jobs = [j \in JobIds |-> [NewJob(1, {}) EXCEPT !.celery_task_id = TaskId(1, 1)]]
    /\ document = NewDocument
    /\ docFiles = {"quarantine"}
    /\ artifacts = EmptyBag
    /\ artifactFiles = {}
    /\ chains = [c \in ChainIds |->
                   IF c = 1 THEN [IdleChain EXCEPT !.job = 1, !.pc = "queued"]
                   ELSE IdleChain]
    /\ nextChain = 1
    /\ revoked = {}
    /\ endpoints = <<>>
    /\ emitted = <<>>
    /\ deliveries = <<>>
    /\ webhookTasks = EmptyBag
    /\ reaper = IdleReaper
    /\ \E scopes \in ScopeSets :
          apiKeys = <<APIKey("A", _hash_key(InitialSecret[1]), scopes, None),
                      [APIKey("B", _hash_key(InitialSecret[2]), AllScopes, None)
                          EXCEPT !.last_used_at = now]>>
    /\ settings = DefaultSettings
    /\ compare = NoCompare
    /\ taskRun = <<>>
    /\ retryReqs = EmptyBag
    /\ uploads = <<>>
    /\ documents = {}
    /\ quarantine = {}
    /\ last = NoResponse

Resources == {"document", "job", "artifact", "webhook"}

\* the requests are followed up to the first endpoint created through the API
\* and the first accepted compare
NextApi ==
    \/ \E header \in KeyHeaders, resource \in Resources : List(header, resource)
    \/ \E header \in KeyHeaders, resource \in Resources :
          \E row \in Rows(resource) : Retrieve(header, resource, row.id)
    \/ \E header \in KeyHeaders, j \in JobIds : ApiCancel(header, j)
    \/ \E header \in KeyHeaders, j \in JobIds : ApiRetry(header, j)
    \/ \E header \in KeyHeaders :
          compare = NoCompare /\ ApiCompare(header, <<"fast_text">>, None)
    \/ \E header \in KeyHeaders :
          endpoints = <<>> /\ ApiWebhookCreate(header, {})
    \/ \E header \in KeyHeaders, e \in DOMAIN endpoints :
          ApiWebhookUpdate(header, e, FALSE)
    \/ \E header \in KeyHeaders, e \in DOMAIN endpoints : ApiWebhookDestroy(header, e)
    \/ \E c \in ChainIds : ScanEnter(c)
    \/ \E c \in ChainIds, result \in RaceScanResults : ScanFinish(c, result)
    \/ \E c \in ChainIds : ConvertEnter(c)
    \/ \E c \in ChainIds : ConvertFinish(c, TRUE)

SpecApi == InitApi /\ [][NextApi]_vars

\* ==================================================================== SpecAuth
\* The headers a request can carry, next to the operator deactivating and
\* rotating the first key; the requests are those whose handler answers with
\* the rows of the tenant.
NextAuth ==
    \/ \E header \in AuthHeaders, resource \in Resources : List(header, resource)
    \/ \E header \in AuthHeaders, resource \in Resources :
          \E row \in Rows(resource) : Retrieve(header, resource, row.id)
    \/ \E header \in AuthHeaders :
          endpoints = <<>> /\ ApiWebhookCreate(header, {})
    \/ \E header \in AuthHeaders, e \in DOMAIN endpoints :
          ApiWebhookUpdate(header, e, FALSE)
    \/ \E header \in AuthHeaders, e \in DOMAIN endpoints : ApiWebhookDestroy(header, e)
    \/ \E k \in DOMAIN apiKeys : deactivate_keys(k)
    \/ \E k \in DOMAIN apiKeys : rotate_keys(k)

InitAuth ==
    /\ InitApi
    /\ apiKeys[1].scopes = AllScopes

SpecAuth == InitAuth /\ [][NextAuth]_vars

\* ==================================================================== SpecInternal
\* healthz, readyz and metrics under each configured token
InitInternal ==
    /\ \E token \in InternalTokens :
          settings = [DefaultSettings EXCEPT !.INTERNAL_ENDPOINTS_TOKEN = token]
    /\ now = 1
    /\ jobs = [j \in JobIds |-> NoRow]
    /\ document = NoDoc
    /\ docFiles = {}
    /\ artifacts = EmptyBag
    /\ artifactFiles = {}
    /\ chains = [c \in ChainIds |-> IdleChain]
    /\ nextChain = 0
    /\ revoked = {}
    /\ endpoints = <<>>
    /\ emitted = <<>>
    /\ deliveries = <<>>
    /\ webhookTasks = EmptyBag
    /\ reaper = IdleReaper
    /\ apiKeys = <<>>
    /\ compare = NoCompare
    /\ taskRun = <<>>
    /\ retryReqs = EmptyBag
    /\ uploads = <<>>
    /\ documents = {}
    /\ quarantine = {}
    /\ last = NoResponse

NextInternal ==
    \E endpoint \in InternalEndpoints, header_token, query_token \in InternalTokens,
       checksOk \in BOOLEAN :
       InternalRequest(endpoint, header_token, query_token, checksOk)

SpecInternal == InitInternal /\ [][NextInternal]_vars

\* ==================================================================== SpecFilters
\* The query parameters of GET /v1/jobs/, in the order get_queryset reads them
JobFilters ==
    <<"external_uuid", "comparison_id", "status", "stage", "document_id", "updated_after",
      "created_after", "created_before">>

\* a parameter is absent, well-formed and matching the rows, or malformed (not
\* a uuid, not a member of the enumeration, not an integer, not a date)
FilterValues == {"", "ok", "bad"}
\* the requests drawn carry at most MaxFilters of the parameters
FilterParams ==
    {params \in [{JobFilters[i] : i \in DOMAIN JobFilters} -> FilterValues] :
        Cardinality({i \in DOMAIN JobFilters : params[JobFilters[i]] # ""}) <= MaxFilters}

\* JobViewSet.get_queryset from the first filter on: the rows, or raised when
\* an exception leaves the method
RECURSIVE ApplyFilters(_, _, _)
ApplyFilters(params, i, rows) ==
    IF i > Len(JobFilters) THEN [raised |-> FALSE, rows |-> rows]
    ELSE LET name == JobFilters[i]
             value == params[name]
         IN IF value = "" THEN ApplyFilters(params, i + 1, rows)
            ELSE IF name \in {"external_uuid", "comparison_id", "updated_after",
                              "created_after", "created_before"}
            THEN \* uuid.UUID / parse_iso inside try ... except ValueError
                 IF value = "bad" THEN [raised |-> FALSE, rows |-> {}]
                 ELSE ApplyFilters(params, i + 1, rows)
            ELSE IF name \in {"status", "stage"}
            THEN \* a string compared with the column
                 ApplyFilters(params, i + 1, IF value = "bad" THEN {} ELSE rows)
            ELSE \* document_id: filter() converts the value with int(), outside any try
                 IF value = "bad" THEN [raised |-> TRUE, rows |-> {}]
                 ELSE ApplyFilters(params, i + 1, rows)

\* GET /v1/jobs/ with query parameters; an exception that leaves the view is
\* answered 500
JobListFiltered(header, params) ==
    IF Admission(header, "job_list") # 0
    THEN Answered(header, "job_list", params, Admission(header, "job_list"), {})
    ELSE LET result == ApplyFilters(params, 1, get_queryset("job", authenticate(header)))
         IN Answered(header, "job_list", params, IF result.raised THEN 500 ELSE 200,
                     result.rows)

NextFilters ==
    \E header \in KeyHeaders, params \in FilterParams : JobListFiltered(header, params)

SpecFilters == InitAuth /\ [][NextFilters]_vars

\* ==================================================================== SpecLive
\* The pipeline under a broker that delivers every task it holds and external
\* calls that return or raise: the steps of the tasks are weakly fair, the
\* requests of clients are not.
TaskStep ==
    \E c \in ChainIds :
       \/ ScanEnter(c)
       \/ \E result \in ScanResults : ScanFinish(c, result)
       \/ ConvertEnter(c)
       \/ \E engineOk \in BOOLEAN : ConvertFinish(c, engineOk)
       \/ ExportEnter(c)
       \/ \E loadOk \in BOOLEAN : ExportFinish(c, loadOk)
       \/ Finalize(c)
       \/ Terminate(c)
       \/ Discard(c)

NextLive ==
    \/ TaskStep
    \/ \E j \in JobIds, revokeOk \in BOOLEAN : Cancel(j, revokeOk)
    \/ \E j \in JobIds : Retry(j)

SpecLive == InitRace /\ [][NextLive]_vars /\ WF_vars(TaskStep)

\* ==================================================================== SpecStart
\* start_ingestion_pipeline statement by statement: the chain is published
\* (tasks.py:48-53), and the handler loads the row and stores the id of the
\* root task afterwards (tasks.py:55-61), while a worker may already run the
\* tasks of the chain.

\* the handler has published chain c for job j and has not stored the id yet
PublishedStart(j, c) == [pc |-> "published", job |-> j, chain |-> c]

\* the upload handler has created the job and published its chain
InitStart ==
    /\ now = 1
    /\ jobs = [j \in JobIds |-> NewJob(0, {})]
    /\ document = NewDocument
    /\ docFiles = {"quarantine"}
    /\ artifacts = EmptyBag
    /\ artifactFiles = {}
    /\ chains = [c \in ChainIds |->
                   IF c = 1 THEN [IdleChain EXCEPT !.job = 1, !.pc = "queued"]
                   ELSE IdleChain]
    /\ nextChain = 1
    /\ revoked = {}
    /\ endpoints = <<>>
    /\ emitted = <<>>
    /\ deliveries = <<>>
    /\ webhookTasks = EmptyBag
    /\ reaper = IdleReaper
    /\ apiKeys = <<>>
    /\ settings = DefaultSettings
    /\ compare = NoCompare
    /\ taskRun = <<>>
    /\ retryReqs = EmptyBag
    /\ uploads = <<PublishedStart(1, 1)>>
    /\ documents = {}
    /\ quarantine = {}
    /\ last = NoResponse

\* start_ingestion_pipeline, tasks.py:55-61: job.celery_task_id = root.id,
\* saved with update_fields=["celery_task_id"]
StoreRootTaskId ==
    /\ uploads # <<>>
    /\ uploads[1].pc = "published"
    /\ jobs' = [jobs EXCEPT ![uploads[1].job].celery_task_id = TaskId(uploads[1].chain, 1)]
    /\ uploads' = <<>>
    /\ last' = NoResponse
    /\ emitted' = <<>>
    /\ taskRun' = <<>>
    /\ UNCHANGED <<now, document, docFiles, artifacts, artifactFiles, chains, nextChain,
                   revoked, endpoints, deliveries, webhookTasks, reaper, apiKeys, settings,
                   compare, retryReqs, documents, quarantine>>

NextStart ==
    \/ StoreRootTaskId
    \/ \E c \in ChainIds : ScanEnter(c)
    \/ \E c \in ChainIds, result \in RaceScanResults : ScanFinish(c, result)
    \/ \E c \in ChainIds : ConvertEnter(c)
    \/ \E c \in ChainIds, engineOk \in BOOLEAN : ConvertFinish(c, engineOk)
    \/ \E c \in ChainIds : ExportEnter(c)
    \/ \E c \in ChainIds, loadOk \in BOOLEAN : ExportFinish(c, loadOk)
    \/ \E c \in ChainIds : Finalize(c)
    \/ \E c \in ChainIds : Terminate(c)
    \/ \E c \in ChainIds : Discard(c)
    \/ \E j \in JobIds, revokeOk \in BOOLEAN : Cancel(j, revokeOk)

SpecStart == InitStart /\ [][NextStart]_vars

\* ==================================================================== SpecTouch
\* APIKeyAuthentication.authenticate statement by statement, for requests that
\* are handled at the same time: lookup_from_raw loads the key row
\* (authentication.py:25), _touch_last_used compares the loaded copy with the
\* clock and updates the column (authentication.py:38-41).

\* a request that has loaded the row of key k
LoadedKey(k) == [pc |-> "loaded", key |-> k, row |-> apiKeys[k]]

\* what _touch_last_used did for key k
Touched(k, wrote) == [op |-> "touch", job |-> k, code |-> 0, error |-> "", wrote |-> wrote]

touchFrame ==
    <<jobs, document, docFiles, artifacts, artifactFiles, chains, nextChain, revoked,
      endpoints, deliveries, webhookTasks, reaper, settings, compare, retryReqs, documents,
      quarantine>>

\* authenticate up to the row it found
AuthLoad(header) ==
    /\ Len(uploads) < MaxRequestsInFlight
    /\ authenticate(header) # NoKey
    /\ uploads' = Append(uploads, LoadedKey(authenticate(header)))
    /\ last' = NoResponse
    /\ emitted' = <<>>
    /\ taskRun' = <<>>
    /\ UNCHANGED <<now, apiKeys, touchFrame>>

\* _touch_last_used for the copy request i loaded: the update writes the one
\* column
AuthTouch(i) ==
    /\ i \in DOMAIN uploads
    /\ uploads[i].pc = "loaded"
    /\ LET k == uploads[i].key
           loaded == [apiKeys EXCEPT ![k] = uploads[i].row]
           touched == _touch_last_used(loaded, k)
       IN /\ apiKeys' = IF touched = loaded THEN apiKeys
                        ELSE [apiKeys EXCEPT ![k].last_used_at = touched[k].last_used_at]
          /\ last' = Touched(k, touched # loaded)
    /\ uploads' = [n \in 1 .. (Len(uploads) - 1) |->
                     IF n < i THEN uploads[n] ELSE uploads[n + 1]]
    /\ emitted' = <<>>
    /\ taskRun' = <<>>
    /\ UNCHANGED <<now, touchFrame>>

\* the clock moves on while requests are in flight
TouchTick ==
    /\ Tick
    /\ UNCHANGED uploads

NextTouch ==
    \/ \E header \in KeyHeaders : AuthLoad(header)
    \/ \E i \in DOMAIN uploads : AuthTouch(i)
    \/ TouchTick

SpecTouch == InitAuth /\ [][NextTouch]_vars

\* ==================================================================== SpecSiblings
\* Two jobs of one document: the upload's own job and the job of a compare
\* request with one profile, made while the upload is still in quarantine.
\* Both chains are published; the scanner and the engine work: the scanner
\* answers ERROR only for a path that does not exist.
SiblingIds == {1, 2}

\* what compare left behind for its one profile: the job's row, its copy
SiblingCompare ==
    CompareLoop(<<"fast_text">>, [NoCompare EXCEPT !.uuids = 1],
                APIKey(Tenant, <<"hmac-sha256", "s1">>, {"documents:write"}, None),
                None, 1).compare

InitSiblings ==
    /\ now = 1
    /\ jobs = [j \in SiblingIds |-> [NewJob(0, {}) EXCEPT !.celery_task_id = TaskId(j, 1)]]
    /\ document = NewDocument
    /\ docFiles = {"quarantine"}
    /\ artifacts = EmptyBag
    /\ artifactFiles = {}
    /\ chains = [c \in ChainIds |->
                   IF c \in SiblingIds THEN [IdleChain EXCEPT !.job = c, !.pc = "queued"]
                   ELSE IdleChain]
    /\ nextChain = 2
    /\ revoked = {}
    /\ endpoints = <<>>
    /\ emitted = <<>>
    /\ deliveries = <<>>
    /\ webhookTasks = EmptyBag
    /\ reaper = IdleReaper
    /\ apiKeys = <<APIKey(Tenant, <<"hmac-sha256", "s1">>, {"documents:write"}, None)>>
    /\ settings = DefaultSettings
    /\ compare = SiblingCompare
    /\ taskRun = <<>>
    /\ retryReqs = EmptyBag
    /\ uploads = <<>>
    /\ documents = {}
    /\ quarantine = {}
    /\ last = NoResponse

\* the steps of the two chains with a scanner and an engine that succeed
SiblingStep ==
    \E c \in ChainIds :
       \/ ScanEnter(c)
       \/ \E result \in RaceScanResults :
             /\ result = "ERROR" => "quarantine" \notin docFiles
             /\ ScanFinish(c, result)
       \/ ConvertEnter(c)
       \/ ConvertFinish(c, TRUE)
       \/ ExportEnter(c)
       \/ ExportFinish(c, TRUE)
       \/ Finalize(c)

NextSiblings ==
    \/ SiblingStep
    \/ Tick

SpecSiblings == InitSiblings /\ [][NextSiblings]_vars /\ WF_vars(SiblingStep)

\* ==================================================================== SpecSign
\* The request deliver_webhook_delivery sends: the body it serialises from
\* payload_json and the headers it builds, for endpoints with and without a
\* secret, a secret that is changed between two attempts included.
EndpointSecrets == {"", "k1", "k2"}

\* the keys of _job_webhook_payload the model carries, in the order of the dict
PayloadKeys == <<"job", "status", "stage", "previous_status", "previous_stage">>

\* json.dumps(payload, separators=(",", ":")).encode("utf-8"): the members in
\* the order of the dict, no whitespace between them
JsonCompact(payload) ==
    [n \in 1 .. Len(PayloadKeys) |-> <<PayloadKeys[n], ":", payload[PayloadKeys[n]]>>]

\* hmac.new(key, body, hashlib.sha256).hexdigest()
HmacSha256Hex(key, body) == <<"hmac-sha256-hex", key, body>>

\* (mutant) the header is set whatever the secret is
SignatureHeaderAlways(secret, body) ==
    [name \in {"X-DocRefinery-Signature"} |-> <<"sha256=", HmacSha256Hex(secret, body)>>]

\* the signature header of a request: none when the secret is empty
SignatureHeader(secret, body) ==
    IF secret = "" THEN <<>>
    ELSE [name \in {"X-DocRefinery-Signature"} |->
            <<"sha256=", HmacSha256Hex(secret, body)>>]

\* the POST request of an attempt for delivery id
PostRequest(id, delivery, endpoint) ==
    LET body == JsonCompact(delivery.payload_json)
    IN [op |-> "post", job |-> delivery.payload_json.job, code |-> 0, error |-> "",
        delivery |-> id, body |-> body,
        headers |-> SignatureHeader(endpoint.secret, body)]

\* a run of the delivery task with the request it sent, if it sent one
SignedRun(t, code) ==
    /\ DeliveryRun(t, code)
    /\ last' = IF taskRun'[1].posted
               THEN PostRequest(t.delivery, deliveries[t.delivery],
                                endpoints[deliveries[t.delivery].endpoint])
               ELSE last

\* PATCH /webhooks/{id}/ with a new secret
PatchSecret(e, secret) ==
    /\ e \in DOMAIN endpoints
    /\ endpoints[e].secret # secret
    /\ endpoints' = [endpoints EXCEPT ![e].secret = secret]
    /\ emitted' = <<>>
    /\ taskRun' = <<>>
    /\ UNCHANGED <<now, deliveries, webhookTasks>>
    /\ UNCHANGED <<jobs, webhookFrame>>

InitSign ==
    /\ now = 1
    /\ jobs = [j \in JobIds |-> [NewJob(0, {}) EXCEPT !.celery_task_id = TaskId(1, 1)]]
    /\ document = NewDocument
    /\ docFiles = {"quarantine"}
    /\ artifacts = EmptyBag
    /\ artifactFiles = {}
    /\ chains = [c \in ChainIds |->
                   IF c = 1 THEN [IdleChain EXCEPT !.job = 1, !.pc = "queued"]
                   ELSE IdleChain]
    /\ nextChain = 1
    /\ revoked = {}
    /\ \E secret \in EndpointSecrets :
          endpoints = <<[WebhookEndpoint(Tenant, TRUE, {}) EXCEPT !.secret = secret]>>
    /\ emitted = <<>>
    /\ deliveries = <<>>
    /\ webhookTasks = EmptyBag
    /\ reaper = IdleReaper
    /\ apiKeys = <<>>
    /\ settings = DefaultSettings
    /\ compare = NoCompare
    /\ taskRun = <<>>
    /\ retryReqs = EmptyBag
    /\ uploads = <<>>
    /\ documents = {}
    /\ quarantine = {}
    /\ last = NoResponse

NextSign ==
    \/ \E j \in JobIds, prev \in PreviousPairs : QueueJobWebhooks(j, prev)
    \/ \E t \in BagToSet(webhookTasks), code \in WebhookResponses : SignedRun(t, code)
    \/ \E e \in EndpointIds, secret \in EndpointSecrets : PatchSecret(e, secret)
    \/ AwaitRetry

SpecSign == InitSign /\ [][NextSign]_vars

\* ==================================================================== SpecDeliver
\* The deliveries of one notification to two subscribed endpoints under a
\* broker that hands every task it holds to a worker and a clock that reaches
\* every countdown: the runs for each delivery and the passing of time are
\* weakly fair, the requests of clients and redeliveries are not.
InitDeliver ==
    /\ InitWebhook
    /\ endpoints = <<WebhookEndpoint(Tenant, TRUE, {}),
                     WebhookEndpoint(Tenant, TRUE, {"job.updated"})>>

\* a worker runs a task of delivery id
RunFor(id) ==
    \E t \in BagToSet(webhookTasks), code \in WebhookResponses :
       /\ t.delivery = id
       /\ deliver_webhook_delivery(t, code)

NextDeliver ==
    \/ \E j \in JobIds : QueueJobWebhooks(j, <<"RUNNING", "SCANNING">>)
    \/ \E id \in EndpointIds : RunFor(id)
    \/ \E e \in EndpointIds, enabled \in BOOLEAN : PatchEndpoint(e, enabled)
    \/ \E id \in DOMAIN deliveries : RedeliverTask(id)
    \/ AwaitRetry

SpecDeliver ==
    /\ InitDeliver
    /\ [][NextDeliver]_vars
    /\ \A id \in EndpointIds : WF_vars(RunFor(id))
    /\ WF_vars(AwaitRetry)

\* ==================================================================== claims
Terminal == {"SUCCEEDED", "FAILED", "QUARANTINED", "CANCELED"}

StageOrder == <<"SCANNING", "CONVERTING", "EXPORTING", "FINALIZING">>
StageRank(stage) ==
    IF stage = "CHUNKING" THEN 0 ELSE CHOOSE i \in 1 .. 4 : StageOrder[i] = stage

AdapterOrder ==
    <<"scan_pdf_task", "docling_convert_task", "export_artifacts_task", "finalize_job_task">>

NoAdapterExecuting(j) == \A c \in ChainIds : chains[c].job = j => chains[c].pc # "running"

KindsOf(j) == {a.kind : a \in {x \in BagToSet(artifacts) : x.job = j}}

\* C1: in every run the adapters execute in the order scan, convert, export,
\* finalize -- the adapter a chain is at is preceded by exactly the successful
\* returns of the adapters before it -- and while the attempt counter stands (one
\* run) the job's stage never moves to an earlier stage.
C1_StagesInOrder ==
    /\ [](\A c \in ChainIds :
            chains[c].pc # "idle" =>
              /\ chains[c].returned = SubSeq(AdapterOrder, 1, Len(chains[c].returned))
              /\ chains[c].pc \in {"queued", "running"} =>
                   PipelineChain[chains[c].pos] = AdapterOrder[Len(chains[c].returned) + 1])
    /\ [][\A j \in JobIds :
            jobs'[j].attempt = jobs[j].attempt =>
              StageRank(jobs'[j].stage) >= StageRank(jobs[j].stage)]_vars

C1_Witness ==
    \E c \in ChainIds :
        /\ chains[c].pc = "done"
        /\ chains[c].returned = AdapterOrder
        /\ jobs[chains[c].job].status = "SUCCEEDED"
        /\ jobs[chains[c].job].stage = "FINALIZING"

\* C2: once a job is CANCELED while none of its adapters is executing, every
\* later step leaves its row as it is and no adapter gets past its entry: the
\* remaining adapters, finalize included, are no-ops and the job stays CANCELED.
C2_CancelBetweenStagesWins ==
    [][\A j \in JobIds :
         (jobs[j].status = "CANCELED" /\ NoAdapterExecuting(j)) =>
           (jobs'[j] = jobs[j] /\ NoAdapterExecuting(j)')]_vars

C2_Witness ==
    \E c \in ChainIds :
        /\ chains[c].pc = "done"
        /\ jobs[chains[c].job].status = "CANCELED"
        /\ jobs[chains[c].job].stage # "FINALIZING"

\* C3 (as claimed): once a row holds CANCELED, no later step writes another status.
C3_CanceledIsFinal ==
    [][\A j \in JobIds :
         jobs[j].status = "CANCELED" => jobs'[j].status = "CANCELED"]_vars

\* C4 (as claimed): a terminal job has finished_at set and
\* duration_ms = finished_at - started_at.
C4_TerminalHasDuration ==
    \A j \in JobIds :
        jobs[j].status \in Terminal =>
          /\ jobs[j].finished_at # NULL
          /\ jobs[j].duration_ms # NULL
          /\ jobs[j].duration_ms = jobs[j].finished_at - jobs[j].started_at

\* C4 (amended): a terminal job has finished_at set; when its started_at is set,
\* duration_ms = finished_at - started_at, and when it is not (the job was
\* canceled before it started) duration_ms is unset.
C4_TerminalDurationWhenStarted ==
    \A j \in JobIds :
        jobs[j].status \in Terminal =>
          /\ jobs[j].finished_at # NULL
          /\ jobs[j].started_at # NULL =>
               jobs[j].duration_ms = jobs[j].finished_at - jobs[j].started_at
          /\ jobs[j].started_at = NULL => jobs[j].duration_ms = NULL

C4_Witness ==
    \E j \in JobIds :
        /\ jobs[j].status = "FAILED"
        /\ jobs[j].started_at # NULL
        /\ jobs[j].duration_ms = 1

\* C5: a cancel request is answered 200 exactly when the row it finds is QUEUED or
\* RUNNING, and then the row is CANCELED with finished_at = now; otherwise it is
\* answered 400 NOT_CANCELABLE, the row is unchanged, no delivery is created and
\* no task is revoked.
C5_CancelOnlyFromActive ==
    [][\A j \in JobIds :
         (last'.op = "cancel" /\ last'.job = j) =>
           /\ last'.code = 200 <=> jobs[j].status \in {"QUEUED", "RUNNING"}
           /\ last'.code = 200 =>
                jobs'[j].status = "CANCELED" /\ jobs'[j].finished_at = now
           /\ last'.code # 200 =>
                /\ last'.code = 400 /\ last'.error = "NOT_CANCELABLE"
                /\ jobs' = jobs /\ emitted' = <<>> /\ revoked' = revoked]_vars

C5_Witness ==
    /\ last = Response("cancel", 1, 400, "NOT_CANCELABLE")
    /\ jobs[1].status = "FAILED"

\* C6: a retry request for a row that is not FAILED or QUARANTINED is answered 400
\* NOT_RETRYABLE, one for a FAILED or QUARANTINED row with attempt >= max_retries
\* 400 RETRY_LIMIT, any other 200; a rejected retry changes no job row, artifact
\* row or artifact file and publishes no chain.
C6_RetryRejections ==
    [][\A j \in JobIds :
         (last'.op = "retry" /\ last'.job = j) =>
           /\ jobs[j].status \notin {"FAILED", "QUARANTINED"} =>
                last'.code = 400 /\ last'.error = "NOT_RETRYABLE"
           /\ (jobs[j].status \in {"FAILED", "QUARANTINED"}
                 /\ jobs[j].attempt >= jobs[j].max_retries) =>
                last'.code = 400 /\ last'.error = "RETRY_LIMIT"
           /\ (jobs[j].status \in {"FAILED", "QUARANTINED"}
                 /\ jobs[j].attempt < jobs[j].max_retries) => last'.code = 200
           /\ last'.code # 200 =>
                /\ jobs' = jobs /\ artifacts' = artifacts
                /\ artifactFiles' = artifactFiles
                /\ chains' = chains /\ nextChain' = nextChain /\ emitted' = <<>>]_vars

C6_Witness ==
    /\ last = Response("retry", 1, 400, "RETRY_LIMIT")
    /\ jobs[1].attempt = jobs[1].max_retries
    /\ jobs[1].attempt > 0

\* C7: an accepted retry leaves no artifact row of the job and no file of such a
\* row, clears the error and timing fields, adds exactly 1 to attempt, sets
\* QUEUED/SCANNING and publishes exactly one new chain, queued at its first task.
C7_AcceptedRetryResets ==
    [][\A j \in JobIds :
         (last'.op = "retry" /\ last'.job = j /\ last'.code = 200) =>
           /\ \A a \in BagToSet(artifacts') : a.job # j
           /\ \A a \in BagToSet(artifacts) : a.job = j => <<j, a.kind>> \notin artifactFiles'
           /\ jobs'[j].error_code = "" /\ jobs'[j].error_message = ""
           /\ jobs'[j].error_details_json = "null"
           /\ jobs'[j].started_at = NULL /\ jobs'[j].finished_at = NULL
           /\ jobs'[j].duration_ms = NULL
           /\ jobs'[j].scan_ms = NULL /\ jobs'[j].convert_ms = NULL
           /\ jobs'[j].export_ms = NULL /\ jobs'[j].chunk_ms = NULL
           /\ jobs'[j].attempt = jobs[j].attempt + 1
           /\ jobs'[j].status = "QUEUED" /\ jobs'[j].stage = "SCANNING"
           /\ nextChain' = nextChain + 1
           /\ chains[nextChain'].pc = "idle"
           /\ chains'[nextChain'].pc = "queued" /\ chains'[nextChain'].pos = 1
           /\ chains'[nextChain'].job = j
           /\ \A c \in ChainIds \ {nextChain'} : chains'[c] = chains[c]]_vars

C7_Witness ==
    /\ last = Response("retry", 1, 200, "")
    /\ jobs[1].docling_version = "v"
    /\ jobs[1].attempt = 1
    /\ KindsOf(1) = {}
    /\ chains[nextChain].pc = "queued"

\* C8 (as claimed): a run published by a retry that ends without a failure of the
\* scanner, the engine or the artifact load ends with the job SUCCEEDED and the
\* artifact kinds of a first run with the same options.
C8_RetriedRunSucceeds ==
    \A c \in ChainIds :
        (c > 1 /\ chains[c].pc \in {"done", "crashed"}
           /\ jobs[chains[c].job].status # "CANCELED") =>
          /\ jobs[chains[c].job].status = "SUCCEEDED"
          /\ KindsOf(chains[c].job) \ ExpirableKinds =
               {k \in {"markdown", "text", "doctags"} :
                    jobs[chains[c].job].exports = {} \/ k \in jobs[chains[c].job].exports}

Unique(arts) ==
    /\ \A a \in BagToSet(arts) : CopiesIn(a, arts) = 1
    /\ \A a, b \in BagToSet(arts) :
          (a.tenant = b.tenant /\ a.job = b.job /\ a.kind = b.kind) => a = b

\* C9: in every reachable state the Artifact table holds at most one row for each
\* (tenant, job, kind), whatever convert, export, retry and the reaper did, also
\* when the chains of two retry requests run side by side; and an accepted retry
\* leaves no row of the job behind for the run it publishes.
C9_ArtifactUnique ==
    /\ [](Unique(artifacts))
    /\ [][\A j \in JobIds :
            (last'.op = "retry" /\ last'.job = j /\ last'.code = 200) =>
              \A a \in BagToSet(artifacts') : a.job # j]_vars

\* a second chain of the job tried to insert a kind that is already there
C9_Witness ==
    \E c \in ChainIds :
        /\ chains[c].pc = "crashed"
        /\ PipelineChain[chains[c].pos] = "docling_convert_task"
        /\ CopiesIn(ArtifactRow(chains[c].job, "docling_json"), artifacts) = 1

\* C10 (as claimed): when two uploads of the same bytes by the same tenant, both
\* within the size limit and with acceptable options, have been answered, one
\* answer is 201 and the other 409 DUPLICATE_DOCUMENT, the table holds exactly
\* one row for that (tenant, sha-256), and exactly one of the two quarantine
\* files is on disk.
C10_ConcurrentDuplicate ==
    \A r1, r2 \in Requests :
        (/\ r1 # r2
         /\ uploads[r1].tenant = uploads[r2].tenant
         /\ uploads[r1].body = uploads[r2].body
         /\ Len(uploads[r1].body) <= max_bytes
         /\ uploads[r1].ingest # "invalid" /\ uploads[r2].ingest # "invalid"
         /\ uploads[r1].pc = "done" /\ uploads[r2].pc = "done") =>
          /\ \E w, l \in {r1, r2} :
                /\ w # l
                /\ uploads[w].code = 201
                /\ uploads[l].code = 409 /\ uploads[l].error_code = "DUPLICATE_DOCUMENT"
          /\ Cardinality({d \in documents :
                             d.tenant = uploads[r1].tenant
                               /\ d.sha256 = hexdigest(uploads[r1].body)}) = 1
          /\ Cardinality(quarantine \cap {r1, r2}) = 1

\* C11: a request answered 413 FILE_TOO_LARGE, 409 DUPLICATE_DOCUMENT or 400
\* INVALID_OPTIONS leaves no quarantine file of its own, no document row of its
\* own and so no enrolled job, and the step that answers it leaves every document
\* row of another request as it was.
C11_AdmissionFailureLeavesNothing ==
    /\ [](\A r \in Requests :
            (uploads[r].pc = "done" /\ uploads[r].code \in {413, 409, 400}) =>
              /\ r \notin quarantine
              /\ \A d \in documents : d.by # r)
    /\ [][\A r \in Requests :
            (uploads[r].pc # "done" /\ uploads'[r].pc = "done"
               /\ uploads'[r].code \in {413, 409, 400}) =>
              {d \in documents' : d.by # r} = {d \in documents : d.by # r}]_vars

\* all three rejections next to a stored document: a duplicate, and a request
\* whose row was inserted and taken back
C11_Witness ==
    \E r1, r2 \in Requests :
        /\ uploads[r1].code = 400 /\ uploads[r1].error_code = "INVALID_OPTIONS"
        /\ uploads[r2].code = 201
        /\ \E d \in documents : d.by = r2 /\ d.jobs = 1

\* C12: the limit is applied to the bytes counted while streaming: a body of
\* more than max_bytes is answered 413 FILE_TOO_LARGE whatever size was
\* advertised and leaves no file; a body of exactly max_bytes whose advertised
\* size is 0 or within the limit passes the size checks with size_bytes =
\* max_bytes, and is answered 201 when no other request carries the same bytes
\* for the same tenant and its options are acceptable.
C12_SizeLimitOnStreamedBytes ==
    \A r \in Requests :
        LET u == uploads[r]
        IN /\ (u.pc # "request" /\ Len(u.body) > max_bytes) =>
                /\ u.pc = "done" /\ u.code = 413 /\ u.error_code = "FILE_TOO_LARGE"
                /\ r \notin quarantine
           /\ (u.pc # "request" /\ Len(u.body) = max_bytes /\ u.size <= max_bytes) =>
                /\ u.code # 413
                /\ u.size_bytes = max_bytes
                /\ (/\ u.pc = "done" /\ u.ingest # "invalid"
                    /\ \A q \in Requests \ {r} :
                          uploads[q].tenant # u.tenant \/ uploads[q].body # u.body) =>
                     u.code = 201

C12_Witness ==
    \E r1, r2 \in Requests :
        /\ Len(uploads[r1].body) = max_bytes + 1 /\ uploads[r1].size = 0
        /\ uploads[r1].code = 413
        /\ Len(uploads[r2].body) = max_bytes /\ uploads[r2].size = 0
        /\ uploads[r2].code = 201

ScanFinished(c) ==
    /\ Running(c, "scan_pdf_task")
    /\ chains'[c].pc \notin {"running", "revoked"}
    /\ last'.op = "scan"

\* C18 (as claimed): the scan stage turns the scanner's answer into: OK -> the
\* quarantine file is renamed into the clean tree, the document is CLEAN with
\* its clean path, scan_ms is recorded and the chain goes on to convert; FOUND ->
\* document INFECTED, job QUARANTINED/VIRUS_FOUND, chain aborted; ERROR -> job
\* FAILED/VIRUS_SCAN_ERROR, aborted; transport exception -> job
\* FAILED/CLAMAV_UNAVAILABLE, aborted; and no answer but OK moves the file.
C18_ScanOutcomes ==
    [][\A c \in ChainIds :
         ScanFinished(c) =>
           LET r == last'.error
               job == jobs'[chains[c].job]
               aborted(status, code) ==
                   /\ job.status = status /\ job.error_code = code
                   /\ chains'[c].pc = "aborted"
                   /\ docFiles' = docFiles
           IN /\ r = "OK" =>
                   /\ "quarantine" \in docFiles
                   /\ docFiles' = (docFiles \ {"quarantine"}) \cup {"clean"}
                   /\ document'.status = "CLEAN"
                   /\ document'.storage_relpath_clean # ""
                   /\ job.scan_ms # NULL
                   /\ chains'[c].pc = "queued"
                   /\ PipelineChain[chains'[c].pos] = "docling_convert_task"
              /\ r = "FOUND" =>
                   document'.status = "INFECTED" /\ aborted("QUARANTINED", "VIRUS_FOUND")
              /\ r = "ERROR" => aborted("FAILED", "VIRUS_SCAN_ERROR")
              /\ r = "EXCEPTION" => aborted("FAILED", "CLAMAV_UNAVAILABLE")]_vars

\* C19 (as claimed): an answer that is not a mapping, or a mapping without an
\* entry for the scanned path, makes the job FAILED/CLAMAV_INVALID_RESPONSE and
\* aborts the chain.
C19_InvalidScanResponse ==
    [][\A c \in ChainIds :
         (ScanFinished(c) /\ last'.error \in {"NOT_DICT", "NO_ENTRY"}) =>
           /\ jobs'[chains[c].job].status = "FAILED"
           /\ jobs'[chains[c].job].error_code = "CLAMAV_INVALID_RESPONSE"
           /\ chains'[c].pc = "aborted"]_vars

FailureRecorded ==
    \A c \in ChainIds :
        /\ (chains[c].pc = "running" /\ chains'[c].pc = "aborted") =>
             LET j == chains[c].job
             IN /\ jobs'[j].status \in {"FAILED", "QUARANTINED"}
                /\ jobs'[j].error_code # ""
                /\ Len(emitted') = 1
                /\ emitted'[1].status = jobs'[j].status
                /\ emitted'[1].previous_status = chains[c].local.status
                /\ emitted'[1].previous_stage = chains[c].local.stage
        /\ chains[c].pc = "aborted" => chains'[c] = chains[c]

LaterStageEntered(c) ==
    /\ chains[c].pc = "queued"
    /\ chains[c].pos > 1
    /\ chains'[c] # chains[c]

\* C20 (as claimed): an adapter that hits a pipeline error records FAILED or
\* QUARANTINED with an error code, queues the webhook with the pair it had before
\* the failure as previous pair, and its chain runs no further stage; and a later
\* stage that is entered while the job is FAILED or QUARANTINED leaves the job row
\* as it is.
C20_FailureStopsTheRun ==
    [][/\ FailureRecorded
       /\ \A c \in ChainIds :
            (LaterStageEntered(c)
               /\ jobs[chains[c].job].status \in {"FAILED", "QUARANTINED"}) =>
              jobs'[chains[c].job] = jobs[chains[c].job]]_vars

\* the endpoint's stored event set names job.updated
SubscribedStored(endpoint) == "job.updated" \in endpoint.events

\* the endpoint's event set names job.updated, or is empty and stands for the default
SubscribedOrDefault(endpoint) == endpoint.events = {} \/ SubscribedStored(endpoint)

\* the endpoints a notification of job j coming from prev is due to
NotificationsDue(j, prev, Subscribed(_)) ==
    IF prev = <<jobs[j].status, jobs[j].stage>> THEN {}
    ELSE {e \in EndpointIds : /\ endpoints[e].tenant = Tenant
                              /\ endpoints[e].enabled
                              /\ Subscribed(endpoints[e])}

\* rows holds one PENDING delivery for each endpoint in due and nothing else
OnePendingEach(rows, due) ==
    /\ \A i \in DOMAIN rows : rows[i].delivery = "PENDING" /\ rows[i].endpoint \in due
    /\ \A e \in due : Cardinality({i \in DOMAIN rows : rows[i].endpoint = e}) = 1

\* the step stored the rows in the table and enqueued one task for each
NotificationStored(rows) ==
    /\ Len(deliveries') = Len(deliveries) + Len(rows)
    /\ SubSeq(deliveries', 1, Len(deliveries)) = deliveries
    /\ BagCardinality(webhookTasks') = BagCardinality(webhookTasks) + Len(rows)
    /\ \A i \in DOMAIN rows :
          LET id == Len(deliveries) + i
          IN /\ deliveries'[id].endpoint = rows[i].endpoint
             /\ deliveries'[id].status = "PENDING"
             /\ deliveries'[id].attempt = 0
             /\ CopiesIn([delivery |-> id, eta |-> now], webhookTasks') = 1

\* C13 (as stated): queue_job_webhooks creates nothing when the (status, stage)
\* pair equals the previous pair; when it differs it creates exactly one PENDING
\* delivery, and enqueues exactly one task, for each enabled endpoint of the
\* job's tenant whose event set contains job.updated, and none for any other
\* endpoint.
C13_DeliveryPerSubscribedEndpoint ==
    /\ [](\A j \in JobIds, prev \in PreviousPairs :
            OnePendingEach(queue_job_webhooks(j, jobs[j], prev[1], prev[2]),
                           NotificationsDue(j, prev, SubscribedStored)))
    /\ [][\A j \in JobIds, prev \in PreviousPairs :
            QueueJobWebhooks(j, prev) =>
               NotificationStored(queue_job_webhooks(j, jobs[j], prev[1], prev[2]))]_vars

\* C13 (amended): queue_job_webhooks creates nothing when the (status, stage)
\* pair equals the previous pair; when it differs it creates exactly one PENDING
\* delivery, and enqueues exactly one task, for each enabled endpoint of the
\* job's tenant whose event set contains job.updated or is empty (an empty set
\* stands for the default events), and none for any other endpoint.
C13_DeliveryPerEffectiveSubscription ==
    /\ [](\A j \in JobIds, prev \in PreviousPairs :
            OnePendingEach(queue_job_webhooks(j, jobs[j], prev[1], prev[2]),
                           NotificationsDue(j, prev, SubscribedOrDefault)))
    /\ [][\A j \in JobIds, prev \in PreviousPairs :
            QueueJobWebhooks(j, prev) =>
               NotificationStored(queue_job_webhooks(j, jobs[j], prev[1], prev[2]))]_vars

\* a changed pair has just been notified to two endpoints, one subscribed by
\* name and one by default, while nothing was created before
C13_Witness ==
    /\ Len(emitted) = 2 /\ Len(deliveries) = 2
    /\ BagCardinality(webhookTasks) = 2
    /\ endpoints[1].events = {} /\ endpoints[2].events = {"job.updated"}
    /\ emitted[1].previous_stage # jobs[1].stage

\* C14: a delivery that is DELIVERED or FAILED is never attempted again: no step
\* changes its status, attempt, response_code, next_retry_at or delivered_at,
\* and a run of the delivery task for it makes no POST request and leaves the
\* endpoint's last_success_at and last_failure_at as they were.
C14_TerminalNeverReattempted ==
    [][\A id \in DOMAIN deliveries :
          deliveries[id].status \in {"DELIVERED", "FAILED"} =>
             LET e == deliveries[id].endpoint
             IN /\ deliveries'[id].status = deliveries[id].status
                /\ deliveries'[id].attempt = deliveries[id].attempt
                /\ deliveries'[id].response_code = deliveries[id].response_code
                /\ deliveries'[id].next_retry_at = deliveries[id].next_retry_at
                /\ deliveries'[id].delivered_at = deliveries[id].delivered_at
                /\ \A i \in DOMAIN taskRun' :
                      taskRun'[i].delivery = id =>
                         /\ ~taskRun'[i].posted
                         /\ endpoints'[e].last_success_at = endpoints[e].last_success_at
                         /\ endpoints'[e].last_failure_at = endpoints[e].last_failure_at]_vars

\* the task of a delivery that had used up its attempts has just been run again,
\* its endpoint being enabled
C14_Witness ==
    \E id \in DOMAIN deliveries :
       /\ taskRun = <<TaskRun(id, FALSE)>>
       /\ deliveries[id].status = "FAILED"
       /\ deliveries[id].attempt = _webhook_max_attempts
       /\ endpoints[deliveries[id].endpoint].enabled

\* the tasks the step enqueued while it took t from the broker
Enqueued(t) == webhookTasks' (-) (webhookTasks (-) SetToBag({t}))

C16_DisabledEndpointFails ==
    [][\A t \in BagToSet(webhookTasks), code \in WebhookResponses :
          LET id == t.delivery
              before == deliveries[id]
              after == deliveries'[id]
          IN /\ deliver_webhook_delivery(t, code)
             /\ before.status \in {"PENDING", "RETRYING"}
             /\ ~endpoints[before.endpoint].enabled
             => /\ after.status = "FAILED"
                /\ after.last_error = "Endpoint disabled"
                /\ taskRun' = <<[delivery |-> id, posted |-> FALSE]>>
                /\ after.attempt = before.attempt
                /\ Enqueued(t) = EmptyBag
                /\ endpoints' = endpoints]_vars

\* the retry of a delivery has just run after its endpoint was switched off
C16_Witness ==
    \E id \in DOMAIN deliveries :
       /\ taskRun = <<TaskRun(id, FALSE)>>
       /\ deliveries[id].status = "FAILED"
       /\ deliveries[id].last_error = "Endpoint disabled"
       /\ deliveries[id].attempt = 1
       /\ ~endpoints[deliveries[id].endpoint].enabled
       /\ \A t \in BagToSet(webhookTasks) : t.delivery # id

\* C17: whatever a delivery attempt comes to (delivered, refused, no answer,
\* endpoint disabled, attempts used up), the run of the delivery task leaves
\* every job, document and artifact row, and the chain of the job, as they
\* were: the pipeline goes on as it does when nobody is notified.
C17_DeliveryLeavesJobAlone ==
    [][\A t \in BagToSet(webhookTasks), code \in WebhookResponses :
          deliver_webhook_delivery(t, code) =>
             /\ jobs' = jobs
             /\ document' = document /\ documents' = documents
             /\ artifacts' = artifacts
             /\ docFiles' = docFiles /\ artifactFiles' = artifactFiles
             /\ chains' = chains]_vars

\* the last attempt of a delivery about the job has just failed, after the job
\* went on to SUCCEEDED
C17_Witness ==
    \E id \in DOMAIN deliveries :
       /\ taskRun = <<TaskRun(id, TRUE)>>
       /\ deliveries[id].status = "FAILED"
       /\ deliveries[id].attempt = _webhook_max_attempts
       /\ deliveries[id].payload_json.job = 1
       /\ jobs[1].status = "SUCCEEDED"

\* the chains of job j whose next task is queued at the broker or executing
InFlight(j) == {c \in ChainIds : chains[c].job = j /\ chains[c].pc \in {"queued", "running"}}

\* C30: at most one pipeline chain is in flight for a job at any time, so no two
\* stage adapters of the same job execute concurrently, whatever upload, cancel
\* and retry requests were made (two racing retry requests included).
C30_OneChainInFlight ==
    \A j \in JobIds :
       /\ Cardinality(InFlight(j)) <= 1
       /\ Cardinality({c \in InFlight(j) : chains[c].pc = "running"}) <= 1

\* the reaper has removed the file of the artifact row it is handling
ArtifactFileReaped == reaper.task = "artifacts" /\ reaper.pc = "row"

\* the reaper has removed the file copies of the document it is handling
DocumentFilesReaped == reaper.task = "documents" /\ reaper.pc = "row"

\* C28: the reaper deletes the record first and the files afterwards: in no
\* state during reaping is an artifact or document record still in its table
\* while the reaper has already removed the file the record references.
C28_RecordBeforeFiles ==
    /\ ArtifactFileReaped => CopiesIn(reaper.cur[1], artifacts) = 0
    /\ DocumentFilesReaped => document = NoDoc

\* the step is the row deletion of cleanup_expired_artifacts
ArtifactReaped == ArtifactFileReaped /\ reaper'.pc # "row"

\* the step is the doc.delete() of cleanup_expired_documents
DocumentReaped == DocumentFilesReaped /\ reaper' = IdleReaper

\* C27: the reaper deletes an artifact only when its expires_at has passed and
\* a document only when its expires_at has passed; when it has reaped a document
\* the document row, every artifact record and artifact file of its jobs and
\* both file copies are gone; a file already missing does not stop it.
C27_ReaperRemovesExpired ==
    /\ [][ArtifactReaped => Expired(reaper.cur[1])]_vars
    /\ [][DocumentReaped => /\ Expired(document)
                            /\ document' = NoDoc
                            /\ artifacts' = EmptyBag
                            /\ artifactFiles' = {}
                            /\ docFiles' = {}]_vars

\* the step is the end of a scan_pdf_task
ScanStageStep ==
    \E c \in ChainIds : Running(c, "scan_pdf_task") /\ chains'[c].pc # "running"

\* the step is an operator's edit of the expiry, outside the API and the pipeline
OperatorStep ==
    /\ UNCHANGED <<jobs, chains, reaper>>
    /\ document' = [document EXCEPT !.expires_at = document'.expires_at]

\* C29: a document row is mutated only by the scan stage, in its status and its
\* clean path, and removed only by the reaper: convert, export, finalize, cancel
\* and retry leave every field of the document row unchanged.
C29_DocumentFrame ==
    [][document' # document =>
          \/ DocumentReaped /\ document' = NoDoc
          \/ ScanStageStep /\ document' # NoDoc
                           /\ document'.expires_at = document.expires_at
          \/ OperatorStep]_vars

\* the object the merge starts from: the caller's, else the key's, else the
\* system's, else an empty one
Precedence(caller, key_default, system_default) ==
    IF caller # None /\ caller # Some(EmptyDict) THEN caller[1]
    ELSE IF key_default # None /\ key_default # Some(EmptyDict) THEN key_default[1]
    ELSE system_default

NonExport(options) == [key \in DOMAIN options \ {"exports"} |-> options[key]]

Resolved == last.op = "ingest"

CompareAnswered == last'.op = "compare"

\* C26: a compare request with N profiles that is accepted creates exactly N
\* jobs, one per profile, all QUEUED/SCANNING, all with the same comparison_id
\* that no earlier job carries, each with a copy of its own that is on disk, and
\* publishes one pipeline per job; when the document has neither its quarantine
\* nor its clean copy the answer is 400 MISSING_SOURCE_FILE and no job and no
\* file is created.
C26_CompareFanOut ==
    [][CompareAnswered =>
          /\ (document # NoDoc /\ SourceFile = "") =>
                 last'.code = 400 /\ last'.error = "MISSING_SOURCE_FILE"
          /\ last'.code # 201 => compare' = compare
          /\ last'.code = 201 =>
                LET created == last'.jobs
                    row(id) == compare'.jobs[id]
                IN /\ SourceFile # ""
                   /\ Cardinality(created) = Len(last'.profiles)
                   /\ Len(compare'.jobs) = Len(compare.jobs) + Len(last'.profiles)
                   /\ SubSeq(compare'.jobs, 1, Len(compare.jobs)) = compare.jobs
                   /\ \A id \in created :
                         /\ row(id).status = "QUEUED" /\ row(id).stage = "SCANNING"
                         /\ row(id).profile = last'.profiles[id - Len(compare.jobs)]
                         /\ row(id).comparison_id = last'.comparison_id
                         /\ row(id).source_relpath \in compare'.files \ compare.files
                         /\ \A other \in created \ {id} :
                               row(other).source_relpath # row(id).source_relpath
                   /\ \A id \in 1 .. Len(compare.jobs) :
                         compare.jobs[id].comparison_id # last'.comparison_id
                   /\ Cardinality(compare'.files) =
                          Cardinality(compare.files) + Len(last'.profiles)
                   /\ compare'.published =
                          compare.published \o
                             [i \in 1 .. Len(last'.profiles) |-> Len(compare.jobs) + i]]_vars

\* a request with two profiles was accepted, and a later one found no copy
C26_Witness ==
    /\ last.op = "compare" /\ last.error = "MISSING_SOURCE_FILE"
    /\ Len(compare.jobs) = 2
    /\ compare.jobs[1].comparison_id = compare.jobs[2].comparison_id
    /\ compare.jobs[1].source_relpath # compare.jobs[2].source_relpath
    /\ compare.published = <<1, 2>>

\* an internal endpoint has just answered
InternalAnswered == "header_token" \in DOMAIN last

\* C24: healthz, readyz and metrics answer something other than 403 only when
\* a non-empty token is configured and the X-Internal-Token header equals it;
\* with no token configured the answer is 403, and a token sent only as a
\* query parameter is answered 403.
C24_InternalTokenGuard ==
    InternalAnswered =>
       /\ last.code # 403 =>
             /\ settings.INTERNAL_ENDPOINTS_TOKEN # ""
             /\ last.header_token = settings.INTERNAL_ENDPOINTS_TOKEN
       /\ settings.INTERNAL_ENDPOINTS_TOKEN = "" => last.code = 403
       /\ last.header_token = "" => last.code = 403

\* the configured token came as a query parameter only and was refused
C24_Witness ==
    /\ InternalAnswered
    /\ settings.INTERNAL_ENDPOINTS_TOKEN # ""
    /\ last.query_token = settings.INTERNAL_ENDPOINTS_TOKEN
    /\ last.header_token = ""
    /\ last.code = 403

\* a view of /v1 has just answered the request that carried last.header
ApiAnswered == "header" \in DOMAIN last

\* the rows a response carries belong to the tenant of the key of the request
OwnRowsOnly ==
    ApiAnswered /\ last.rows # {} =>
       /\ authenticate(last.header) # NoKey
       /\ \A row \in last.rows : row.tenant = apiKeys[authenticate(last.header)].tenant

\* the requests that address the row of a table by its id
ById(header, resource, id) ==
    \/ Retrieve(header, resource, id)
    \/ resource = "job" /\ id[1] = "upload" /\ ApiCancel(header, id[2])
    \/ resource = "job" /\ id[1] = "upload" /\ ApiRetry(header, id[2])
    \/ resource = "document" /\ ApiCompare(header, <<"fast_text">>, None)
    \/ resource = "webhook" /\ ApiWebhookUpdate(header, id, FALSE)
    \/ resource = "webhook" /\ ApiWebhookDestroy(header, id)

\* the key of the header passes the checks of every view and the row belongs
\* to another tenant
Foreign(header, row) ==
    /\ authenticate(header) # NoKey
    /\ apiKeys[authenticate(header)].scopes = AllScopes
    /\ row.tenant # apiKeys[authenticate(header)].tenant

\* C21: a list or get of documents, jobs, artifacts and webhook endpoints
\* returns only rows of the tenant of the key, and a request that addresses the
\* row of another tenant by id (get, download, cancel, retry, compare, webhook
\* update, webhook delete) is answered 404 and changes no row.
C21_TenantIsolation ==
    /\ []OwnRowsOnly
    /\ [][\/ last'.code = 404 /\ UNCHANGED apiFrame
          \/ \A header \in KeyHeaders, resource \in Resources :
                \A row \in Rows(resource) :
                   ~(Foreign(header, row) /\ ById(header, resource, row.id))]_vars

\* a key of the other tenant asked to update an endpoint that exists, and was
\* answered 404
C21_Witness ==
    /\ ApiAnswered
    /\ last.op = "webhook_update"
    /\ last.code = 404
    /\ authenticate(last.header) # NoKey
    /\ endpoints[last.job] # NoEndpoint
    /\ endpoints[last.job].enabled
    /\ endpoints[last.job].tenant # apiKeys[authenticate(last.header)].tenant

\* the request of an authenticated key is answered 403 exactly when a scope
\* the action requires is missing from the scopes of the key
ScopeChecked ==
    ApiAnswered /\ authenticate(last.header) # NoKey =>
       (last.code = 403 <=>
          ~(required_scopes(last.op) \subseteq apiKeys[authenticate(last.header)].scopes))

\* a request was answered 403
Refused == ApiAnswered' /\ last'.code = 403

\* the key table differs at most in last_used_at of the key of the request
OnlyTouched ==
    \/ apiKeys' = apiKeys
    \/ /\ authenticate(last'.header) # NoKey
       /\ apiKeys' = [apiKeys EXCEPT ![authenticate(last'.header)].last_used_at = now]

\* C22 (as stated): the scope check passes if and only if every scope the
\* action requires is in the scope set of the key; otherwise the request is
\* answered 403 and changes no state.
C22_RefusedChangesNothing ==
    /\ []ScopeChecked
    /\ [][Refused => UNCHANGED <<apiFrame, apiKeys>>]_vars

\* C22 (amended): the scope check passes if and only if every scope the action
\* requires is in the scope set of the key; otherwise the request is answered
\* 403 and changes nothing but last_used_at of the key, which authentication
\* sets before the scopes are looked at.
C22_ScopeCheck ==
    /\ []ScopeChecked
    /\ [][Refused => OnlyTouched /\ UNCHANGED apiFrame]_vars

\* the key with only webhooks:read asked to create an endpoint and was refused
C22_Witness ==
    /\ ApiAnswered
    /\ last.op = "webhook_create"
    /\ last.code = 403
    /\ authenticate(last.header) # NoKey
    /\ apiKeys[authenticate(last.header)].scopes = {"webhooks:read"}
    /\ endpoints = <<>>

\* the header is Api-Key followed by a secret whose fingerprint is that of an
\* active key
Presents(header) ==
    /\ Len(header) = 2
    /\ header[1] = "Api-Key"
    /\ \E k \in DOMAIN apiKeys : apiKeys[k].active /\ apiKeys[k].key_hash = _hash_key(header[2])

\* C23: a request is authenticated only when its Authorization header is
\* Api-Key <raw> and the fingerprint of <raw> is that of an active key: a
\* missing header, another keyword, a header without a secret, an unknown secret
\* and the secret of a deactivated key are answered 401, and so is the old
\* secret of a key that was rotated.
C23_Authentication ==
    ApiAnswered =>
       /\ ~Presents(last.header) => last.code = 401
       /\ \A k \in DOMAIN apiKeys :
             /\ apiKeys[k].key_hash # _hash_key(InitialSecret[k])
             /\ last.header = <<"Api-Key", InitialSecret[k]>>
             => last.code = 401

\* the first key was rotated and a request with its old secret was answered 401
C23_Witness ==
    /\ ApiAnswered
    /\ apiKeys[1].active
    /\ apiKeys[1].key_hash = _hash_key(RotatedSecret[1])
    /\ last.header = <<"Api-Key", InitialSecret[1]>>
    /\ last.code = 401

\* the job list was asked for with at least one malformed filter value
InvalidFilter ==
    /\ ApiAnswered
    /\ last.op = "job_list"
    /\ last.code # 401
    /\ \E i \in DOMAIN JobFilters : last.job[JobFilters[i]] = "bad"

\* C33: a job-list request with an invalid filter value answers 200 with an
\* empty result, never an error status, for each of the filters status, stage,
\* document_id, external_uuid, comparison_id, created_after, created_before and
\* updated_after.
C33_InvalidFilterIsEmpty ==
    InvalidFilter => last.code = 200 /\ last.rows = {}

\* the attempt counter is within its limit and the job was not published more
\* often than once plus max_retries times
AttemptWithinLimit ==
    \A j \in JobIds :
       /\ 0 <= jobs[j].attempt
       /\ jobs[j].attempt <= jobs[j].max_retries
       /\ nextChain - 1 <= jobs[j].max_retries

\* the attempt counter moves by one, in the step that accepts a retry
AttemptStep ==
    \A j \in JobIds :
       jobs'[j].attempt # jobs[j].attempt =>
          /\ jobs'[j].attempt = jobs[j].attempt + 1
          /\ last' = Response("retry", j, 200, "")

\* C39: 0 <= attempt <= max_retries in every reachable state; attempt changes
\* only through an accepted retry, by exactly +1, so that a job is re-published
\* at most max_retries times, also when retry requests for the same job are
\* handled concurrently.
C39_AttemptBounded ==
    /\ []AttemptWithinLimit
    /\ [][AttemptStep]_vars

\* a job that is QUEUED or RUNNING has no finished_at and no duration_ms, and
\* a RUNNING job has started_at
NonTerminalTimestamps ==
    \A j \in JobIds :
       /\ jobs[j].status \in {"QUEUED", "RUNNING"} =>
             jobs[j].finished_at = NULL /\ jobs[j].duration_ms = NULL
       /\ jobs[j].status = "RUNNING" => jobs[j].started_at # NULL

\* C40: in every reachable state a job with status QUEUED or RUNNING has
\* finished_at and duration_ms unset, and a job with status RUNNING has
\* started_at set, also after a retry reset and after the save of a stage
\* adapter that interleaves with a cancel.
C40_NonTerminalTimestamps == NonTerminalTimestamps

\* the job is in a status no task moves it out of
Settles(j) == jobs[j].status \in {"SUCCEEDED", "FAILED", "CANCELED", "QUARANTINED"}

\* a task that was running ended by raising
EndedByRaising(c) ==
    /\ chains[c].pc = "running"
    /\ chains'[c].pc \in {"aborted", "crashed"}

\* C37: every enrolled job eventually reaches a terminal status when the
\* broker delivers each published task and every scanner, engine and filesystem
\* call returns a result or an exception: no job stays QUEUED or RUNNING for
\* ever, and whenever a stage adapter ends by raising, the job row is FAILED or
\* QUARANTINED.
C37_EveryJobTerminates ==
    /\ \A j \in JobIds : []<>Settles(j)
    /\ [][\A c \in ChainIds :
            EndedByRaising(c) =>
               jobs'[chains[c].job].status \in {"FAILED", "QUARANTINED"}]_vars

\* the deliveries of two consecutive steps that are created for one endpoint
\* and one job follow one another in the sequence of that endpoint: the later
\* one starts from the pair the earlier one announced
ConsecutiveEventsChain ==
    \A i \in DOMAIN emitted, k \in DOMAIN emitted' :
       emitted[i].endpoint = emitted'[k].endpoint /\ emitted[i].job = emitted'[k].job =>
          /\ emitted'[k].previous_status = emitted[i].status
          /\ emitted'[k].previous_stage = emitted[i].stage

\* C31: the state-change events of one job are emitted in the order of its
\* state changes: in the deliveries created for one endpoint each event's
\* (previous_status, previous_stage) is the (status, stage) of the event created
\* just before it, also when a cancel or retry request interleaves with a
\* running stage adapter. Stated for the events of two consecutive steps, which
\* are neighbours in that sequence.
C31_EventsChain == [][ConsecutiveEventsChain]_vars

\* the step is an accepted cancel of job j
CancelAccepted(j) == last' = Response("cancel", j, 200, "") /\ jobs'[j].status = "CANCELED"

\* the ids of the tasks that are executing for job j
Executing(j) ==
    {TaskId(c, chains[c].pos) : c \in {x \in ChainIds : chains[x].job = j /\ chains[x].pc = "running"}}

\* the signal of an accepted cancel goes to the task that is executing; without
\* a recorded id no signal is sent
CancelTargetsExecuting ==
    \A j \in JobIds :
       CancelAccepted(j) =>
          /\ Executing(j) # {} => (revoked' \ revoked) \subseteq Executing(j)
          /\ jobs[j].celery_task_id = NoTask => revoked' = revoked

\* the id start_ingestion_pipeline stores does not replace the id of a later
\* stage
RootIdKeepsLaterStage ==
    \A j \in JobIds :
       /\ uploads # <<>> /\ uploads' = <<>>
       /\ jobs[j].celery_task_id # NoTask
       /\ jobs[j].celery_task_id[2] > 1
       => jobs'[j].celery_task_id = jobs[j].celery_task_id

\* C34: the terminate signal of an accepted cancel targets the task that is
\* executing for the job: each stage adapter records its own task id on entry
\* and the id start_ingestion_pipeline writes after publishing never replaces
\* the id of a later stage that has started; a job without a recorded task id
\* is canceled without a signal, and a failing terminate call leaves the job
\* CANCELED.
C34_CancelTargetsExecuting ==
    [][CancelTargetsExecuting /\ RootIdKeepsLaterStage]_vars

\* the step wrote last_used_at of key k
WroteLastUsed(k) == last' = Touched(k, TRUE)

\* C35: last_used_at of a key is written at most once per hour: for any
\* sequence of authenticated requests with the same key, requests handled
\* concurrently included, a write comes at least one hour after the write
\* before it, and a request that finds the last write less than one hour old
\* leaves the key row unchanged.
C35_TouchOncePerHour ==
    [][\A k \in DOMAIN apiKeys :
          /\ WroteLastUsed(k) /\ apiKeys[k].last_used_at # NULL =>
                now - apiKeys[k].last_used_at >= HOUR
          /\ last' = Touched(k, FALSE) => apiKeys' = apiKeys]_vars

\* the scan stage of chain c ends in this step by failing or stalling
ScanFailsOrStalls(c) ==
    /\ Running(c, "scan_pdf_task")
    /\ chains'[c].pc \in {"aborted", "crashed"}

\* C36: jobs of the same document do not interfere: the scan stage of one job
\* moving the quarantine file never makes the scan stage of another job fail
\* or stall, and with a scanner and an engine that succeed every sibling job
\* reaches SUCCEEDED.
C36_SiblingsSucceed ==
    /\ \A j \in SiblingIds : <>(jobs[j].status = "SUCCEEDED")
    /\ [][\A c \in ChainIds : ~ScanFailsOrStalls(c)]_vars

\* the step is an attempt for delivery id that sent its request
Posts(id) == taskRun' = <<TaskRun(id, TRUE)>>

\* the request an attempt sends is signed as the secret of its endpoint asks
SignedAsStored ==
    \A id \in DOMAIN deliveries :
       Posts(id) =>
          LET secret == endpoints[deliveries[id].endpoint].secret
          IN /\ last'.op = "post" /\ last'.delivery = id
             /\ last'.body = JsonCompact(deliveries[id].payload_json)
             /\ secret # "" =>
                   /\ "X-DocRefinery-Signature" \in DOMAIN last'.headers
                   /\ last'.headers["X-DocRefinery-Signature"] =
                          <<"sha256=", HmacSha256Hex(secret, last'.body)>>
             /\ secret = "" => "X-DocRefinery-Signature" \notin DOMAIN last'.headers

\* an attempt for the delivery of the attempt before it sends the same body
SameBodyOnRetry ==
    (last.op = "post" /\ last'.op = "post" /\ last'.delivery = last.delivery) =>
        last'.body = last.body

\* C32: every delivery attempt to an endpoint with a non-empty secret carries
\* X-DocRefinery-Signature = "sha256=" + the hex HMAC-SHA256 of the compact
\* JSON body keyed by the secret the endpoint has stored at the attempt; with
\* an empty secret the header is absent; the body is the same on every retry
\* of one delivery.
C32_SignedDelivery ==
    [][SignedAsStored /\ SameBodyOnRetry
       /\ \A id \in DOMAIN deliveries :
             deliveries'[id].payload_json = deliveries[id].payload_json]_vars

\* a retry of a delivery went out signed with a secret that was changed after
\* the first attempt
C32_Witness ==
    /\ last.op = "post"
    /\ deliveries[last.delivery].attempt >= 1
    /\ "X-DocRefinery-Signature" \in DOMAIN last.headers
    /\ last.headers["X-DocRefinery-Signature"][2][2] = "k2"

\* attempt never passes the budget, and a delivery that waits for a retry has
\* its time and exactly one task queued
WithinAttemptBudget ==
    \A id \in DOMAIN deliveries :
       /\ deliveries[id].attempt <= _webhook_max_attempts
       /\ deliveries[id].status = "RETRYING" =>
             /\ deliveries[id].next_retry_at # NULL
             /\ Cardinality({t \in BagToSet(webhookTasks) : t.delivery = id}) = 1
             /\ \A t \in BagToSet(webhookTasks) :
                   t.delivery = id => CopiesIn(t, webhookTasks) = 1

\* a network call is made for a delivery that is still open and has budget
\* left, and it either settles the delivery or uses up one attempt
CallUsesBudget ==
    \A id \in DOMAIN deliveries :
       taskRun' = <<TaskRun(id, TRUE)>> =>
          /\ ~Settled(deliveries[id])
          /\ deliveries[id].attempt < _webhook_max_attempts
          /\ \/ deliveries'[id].status = "DELIVERED"
             \/ deliveries'[id].attempt = deliveries[id].attempt + 1

\* delivery id exists and is DELIVERED or FAILED
DeliverySettled(id) == id \in DOMAIN deliveries /\ Settled(deliveries[id])

====
